---- MODULE Spec2Model ----
(***************************************************************************)
(* TNI Seed Harvester - data processing pipeline (src/process-harvest.py). *)
(*                                                                         *)
(* The state is the part of the file system the script reads and writes    *)
(* (output/seed-log.csv, merged-seeds.json, the timestamped backups,       *)
(* snapshots and CSV archives, the frontend document) together with the    *)
(* locals of one invocation of the script and its position in              *)
(* run_pipeline.                                                           *)
(*                                                                         *)
(* Text is a sequence of tokens.  A token is a one-character string, or,   *)
(* for proposal names and header cells, a whole word that neither starts   *)
(* nor ends with white space.  Seed codes are spelled character by         *)
(* character so that len() and isalnum() are computed.                     *)
(***************************************************************************)
EXTENDS Integers, Sequences, FiniteSets, TLC

(***************************************************************************)
(* Bounds of the model.                                                    *)
(***************************************************************************)
MaxRuns == 2
MaxClock == 2
MaxBatch == 2
MaxRaw == 3

(***************************************************************************)
(* Configuration (src/process-harvest.py:60-95).                           *)
(***************************************************************************)
T(word) == <<word>>

ALL_PROPOSALS ==
    << T("Cabler's Union (Base)"), T("Fusion Plant"), T("Lean Administration"),
       T("Legal Retaliation"), T("Lobby against Tenabolt"), T("NetOps Research"),
       T("Overvoltage Directive"), T("PADU"), T("Poems DB"),
       T("Power Management Research"), T("Refurbhut Investment"),
       T("Remote Backups"), T("Scanning Exploit"), T("Second Monitor"),
       T("Undervoltage Directive") >>

TOTAL_COMBINATIONS == 455

UNKNOWN == T("UNKNOWN")

(***************************************************************************)
(* Python string primitives used by the script.                            *)
(***************************************************************************)
Whitespace == {" "}

Digits == {"0", "1", "2", "3", "4", "5", "6", "7", "8", "9"}

Letters ==
    {"A", "B", "C", "D", "E", "F", "G", "H", "I", "J", "K", "L", "M",
     "N", "O", "P", "Q", "R", "S", "T", "U", "V", "W", "X", "Y", "Z",
     "a", "b", "c", "d", "e", "f", "g", "h", "i", "j", "k", "l", "m",
     "n", "o", "p", "q", "r", "s", "t", "u", "v", "w", "x", "y", "z"}

\* str.isalnum(): non-empty and every character a letter or a digit.
IsAlnum(s) == Len(s) > 0 /\ \A i \in 1..Len(s) : s[i] \in Letters \cup Digits

\* str.strip(): drop leading and trailing white space.
Strip(s) ==
    LET keep == {i \in 1..Len(s) : s[i] \notin Whitespace}
    IN  IF keep = {} THEN <<>>
        ELSE LET lo == CHOOSE i \in keep : \A j \in keep : i <= j
                 hi == CHOOSE i \in keep : \A j \in keep : j <= i
             IN  SubSeq(s, lo, hi)

\* Code point order of the characters the model's seed codes are made of.
CharOrder == <<" ", "1", "2", "9", "A", "B", "C", "X", "Y", "Z", "_">>

Ord(c) == CHOOSE i \in 1..Len(CharOrder) : CharOrder[i] = c

\* Python's < on str: lexicographic by code point, a proper prefix is smaller.
StrLess(a, b) ==
    \E k \in 1..(Len(b)) :
        /\ \A i \in 1..(k - 1) : i <= Len(a) /\ a[i] = b[i]
        /\ k - 1 <= Len(a)
        /\ \/ Len(a) = k - 1
           \/ Len(a) >= k /\ Ord(a[k]) < Ord(b[k])

ToSet(seq) == {seq[i] : i \in 1..Len(seq)}

(***************************************************************************)
(* read_csv (src/process-harvest.py:1337-1365).  A file is a sequence of   *)
(* rows, a row a sequence of cells.  The first row is skipped as header,   *)
(* rows with fewer than 4 cells are skipped, cells are stripped.           *)
(***************************************************************************)
Entry(seed, proposals) == [seed |-> seed, proposals |-> proposals]

RowEntry(row) ==
    Entry(Strip(row[1]), <<Strip(row[2]), Strip(row[3]), Strip(row[4])>>)

RECURSIVE ReadRows(_)
ReadRows(rows) ==
    IF rows = <<>> THEN <<>>
    ELSE IF Len(Head(rows)) >= 4
         THEN <<RowEntry(Head(rows))>> \o ReadRows(Tail(rows))
         ELSE ReadRows(Tail(rows))

read_csv(file) == IF file = <<>> THEN <<>> ELSE ReadRows(Tail(file))

(***************************************************************************)
(* clean_seeds (src/process-harvest.py:1368-1414).                         *)
(***************************************************************************)
NoRemoved == [unknown |-> 0, invalid |-> 0, duplicates |-> 0]

HasUnknown(proposals) == \E i \in 1..Len(proposals) : proposals[i] = UNKNOWN

\* ValidSeed with isalpha() in place of isalnum(): digits are refused.
ValidSeedLettersOnly(seed) ==
    Len(seed) = 5 /\ \A i \in 1..Len(seed) : seed[i] \in Letters

\* ValidSeed without the length test.
ValidSeedAnyLength(seed) == IsAlnum(seed)

ValidSeed(seed) == Len(seed) = 5 /\ IsAlnum(seed)

\* CleanStep with the seed format tested before the UNKNOWN sentinel.
CleanStepFormatFirst(acc, entry) ==
    IF ~ValidSeed(entry.seed)
    THEN [acc EXCEPT !.removed.invalid = @ + 1]
    ELSE IF HasUnknown(entry.proposals)
    THEN [acc EXCEPT !.removed.unknown = @ + 1]
    ELSE IF entry.seed \in acc.seen
    THEN [acc EXCEPT !.removed.duplicates = @ + 1]
    ELSE [acc EXCEPT !.seen = @ \cup {entry.seed},
                     !.clean = Append(@, entry)]

\* CleanStep without the seen_seeds test.
CleanStepNoDedup(acc, entry) ==
    IF HasUnknown(entry.proposals)
    THEN [acc EXCEPT !.removed.unknown = @ + 1]
    ELSE IF ~ValidSeed(entry.seed)
    THEN [acc EXCEPT !.removed.invalid = @ + 1]
    ELSE [acc EXCEPT !.seen = @ \cup {entry.seed},
                     !.clean = Append(@, entry)]

\* CleanStep with the records seen keyed on their proposals.
CleanStepDedupByProposals(acc, entry) ==
    IF HasUnknown(entry.proposals)
    THEN [acc EXCEPT !.removed.unknown = @ + 1]
    ELSE IF ~ValidSeed(entry.seed)
    THEN [acc EXCEPT !.removed.invalid = @ + 1]
    ELSE IF entry.proposals \in acc.seen
    THEN [acc EXCEPT !.removed.duplicates = @ + 1]
    ELSE [acc EXCEPT !.seen = @ \cup {entry.proposals},
                     !.clean = Append(@, entry)]

\* CleanStep without the continue at 1399: a record counted as unknown goes
\* on to the seed format and duplicate tests.
CleanStepFallsThrough(acc, entry) ==
    LET acc1 == IF HasUnknown(entry.proposals)
                THEN [acc EXCEPT !.removed.unknown = @ + 1]
                ELSE acc
    IN  IF ~ValidSeed(entry.seed)
        THEN [acc1 EXCEPT !.removed.invalid = @ + 1]
        ELSE IF entry.seed \in acc1.seen
        THEN [acc1 EXCEPT !.removed.duplicates = @ + 1]
        ELSE [acc1 EXCEPT !.seen = @ \cup {entry.seed},
                          !.clean = Append(@, entry)]

\* One iteration of the loop at 1392-1412 on the accumulator
\* [clean, seen, removed].
CleanStep(acc, entry) ==
    IF HasUnknown(entry.proposals)
    THEN [acc EXCEPT !.removed.unknown = @ + 1]
    ELSE IF ~ValidSeed(entry.seed)
    THEN [acc EXCEPT !.removed.invalid = @ + 1]
    ELSE IF entry.seed \in acc.seen
    THEN [acc EXCEPT !.removed.duplicates = @ + 1]
    ELSE [acc EXCEPT !.seen = @ \cup {entry.seed},
                     !.clean = Append(@, entry)]

RECURSIVE CleanLoop(_, _)
CleanLoop(acc, raw) ==
    IF raw = <<>> THEN acc ELSE CleanLoop(CleanStep(acc, Head(raw)), Tail(raw))

clean_seeds(raw_seeds) ==
    LET r == CleanLoop([clean |-> <<>>, seen |-> {}, removed |-> NoRemoved],
                       raw_seeds)
    IN  [clean |-> r.clean, removed |-> r.removed]

(***************************************************************************)
(* merge_seeds (src/process-harvest.py:1443-1471).  A dict is a function   *)
(* from its keys; the empty dict is the empty tuple.                       *)
(***************************************************************************)
EmptyMap == <<>>

Put(map, key, value) ==
    [k \in DOMAIN map \cup {key} |-> IF k = key THEN value ELSE map[k]]

\* {e['seed']: e['proposals'] for e in seeds}: a later entry replaces an
\* earlier one with the same key.
MapOfSeeds(seeds) ==
    IF seeds = <<>> THEN EmptyMap
    ELSE [k \in {seeds[i].seed : i \in 1..Len(seeds)} |->
             LET last == CHOOSE i \in 1..Len(seeds) :
                             /\ seeds[i].seed = k
                             /\ \A j \in (i + 1)..Len(seeds) :
                                    seeds[j].seed # k
             IN  seeds[last].proposals]

\* MergeStep with last-write-wins: a seed code already present is overwritten.
MergeStepOverwrites(acc, entry) ==
    IF entry.seed \notin DOMAIN acc.seed_map
    THEN [acc EXCEPT !.seed_map = Put(@, entry.seed, entry.proposals),
                     !.new_count = @ + 1]
    ELSE [acc EXCEPT !.seed_map = Put(@, entry.seed, entry.proposals),
                     !.duplicate_count = @ + 1]

\* MergeStep without the membership test: every record is inserted and
\* counted as new.
MergeStepAlwaysInserts(acc, entry) ==
    [acc EXCEPT !.seed_map = Put(@, entry.seed, entry.proposals),
                !.new_count = @ + 1]

\* MergeStep that leaves duplicates uncounted.
MergeStepDuplicatesUncounted(acc, entry) ==
    IF entry.seed \notin DOMAIN acc.seed_map
    THEN [acc EXCEPT !.seed_map = Put(@, entry.seed, entry.proposals),
                     !.new_count = @ + 1]
    ELSE acc

\* MergeStep that stores the proposals of a new seed in reverse order.
MergeStepReversesProposals(acc, entry) ==
    IF entry.seed \notin DOMAIN acc.seed_map
    THEN [acc EXCEPT !.seed_map =
                         Put(@, entry.seed,
                             [i \in 1..Len(entry.proposals) |->
                                 entry.proposals[Len(entry.proposals) + 1 - i]]),
                     !.new_count = @ + 1]
    ELSE [acc EXCEPT !.duplicate_count = @ + 1]

\* One iteration of the loop at 1463-1469 on [seed_map, new_count,
\* duplicate_count].
MergeStep(acc, entry) ==
    IF entry.seed \notin DOMAIN acc.seed_map
    THEN [acc EXCEPT !.seed_map = Put(@, entry.seed, entry.proposals),
                     !.new_count = @ + 1]
    ELSE [acc EXCEPT !.duplicate_count = @ + 1]

RECURSIVE MergeLoop(_, _)
MergeLoop(acc, new_seeds) ==
    IF new_seeds = <<>> THEN acc
    ELSE MergeLoop(MergeStep(acc, Head(new_seeds)), Tail(new_seeds))

merge_seeds(existing_data, new_seeds) ==
    MergeLoop([seed_map |-> MapOfSeeds(existing_data.seeds),
               new_count |-> 0, duplicate_count |-> 0], new_seeds)

(***************************************************************************)
(* calculate_combinations, get_missing_combinations                        *)
(* (src/process-harvest.py:1474-1511).  frozenset(proposals) is the set of *)
(* the entries of the list.                                                *)
(***************************************************************************)
\* calculate_combinations on frozenset(proposals[:2]): what is found depends
\* on the order of the proposals in a record.
calculate_combinations_firstTwo(seed_map) ==
    {ToSet(SubSeq(seed_map[s], 1, 2)) : s \in DOMAIN seed_map}

\* calculate_combinations with found_combos ^= {combo}: a combination seen
\* an even number of times is dropped again.
calculate_combinations_toggle(seed_map) ==
    {c \in {ToSet(seed_map[s]) : s \in DOMAIN seed_map} :
        Cardinality({s \in DOMAIN seed_map : ToSet(seed_map[s]) = c}) % 2 = 1}

calculate_combinations(seed_map) ==
    {ToSet(seed_map[s]) : s \in DOMAIN seed_map}

\* The loop at 1486-1489 taken over the keys of the dict in the order
\* `keys`; a dict iterates in insertion order, which the function that
\* stands for it does not keep.
RECURSIVE CombinationsLoop(_, _, _)
CombinationsLoop(found, keys, seed_map) ==
    IF keys = <<>> THEN found
    ELSE CombinationsLoop(found \cup {ToSet(seed_map[Head(keys)])},
                          Tail(keys), seed_map)

\* itertools.combinations(ALL_PROPOSALS, 3), in the order it yields them.
CombinationsWith(i, j) ==
    [k \in 1..(Len(ALL_PROPOSALS) - j) |->
        <<ALL_PROPOSALS[i], ALL_PROPOSALS[j], ALL_PROPOSALS[j + k]>>]

RECURSIVE CombinationsSecond(_, _)
CombinationsSecond(i, j) ==
    IF j > Len(ALL_PROPOSALS) - 1 THEN <<>>
    ELSE CombinationsWith(i, j) \o CombinationsSecond(i, j + 1)

RECURSIVE CombinationsFirst(_)
CombinationsFirst(i) ==
    IF i > Len(ALL_PROPOSALS) - 2 THEN <<>>
    ELSE CombinationsSecond(i, i + 1) \o CombinationsFirst(i + 1)

Combinations3 == CombinationsFirst(1)

\* get_missing_combinations with sorted(..., reverse=True).
get_missing_combinations_descending(found_combos) ==
    LET up == SelectSeq(Combinations3, LAMBDA c : ToSet(c) \notin found_combos)
    IN  [k \in 1..Len(up) |-> up[Len(up) + 1 - k]]

\* ALL_PROPOSALS is listed in ascending string order, so the tuples of
\* Combinations3 are sorted tuples and follow each other in ascending order:
\* sorted([tuple(sorted(m)) for m in missing]) is Combinations3 restricted
\* to the missing sets.
get_missing_combinations(found_combos) ==
    SelectSeq(Combinations3, LAMBDA c : ToSet(c) \notin found_combos)

\* round(100 * n / 455, 4), in ten-thousandths of a percent.
CoveragePercent(n) ==
    (2 * 1000000 * n + TOTAL_COMBINATIONS) \div (2 * TOTAL_COMBINATIONS)

(***************************************************************************)
(* The merged database document (src/process-harvest.py:1417-1440,         *)
(* 1542-1571).  A file is <<>> when absent and <<content>> when present.   *)
(***************************************************************************)
NoFile == <<>>

File(content) == <<content>>

\* What is left of a document whose write stopped part-way: a strict
\* prefix of its text, which json.load rejects.
Truncated == [text |-> "truncated"]

RECURSIVE SortKeys(_)
SortKeys(keys) ==
    IF keys = {} THEN <<>>
    ELSE LET m == CHOOSE a \in keys : \A b \in keys \ {a} : StrLess(a, b)
         IN  <<m>> \o SortKeys(keys \ {m})

\* SeedsList with sorted(..., reverse=True).
SeedsListDescending(seed_map) ==
    LET ks == SortKeys(DOMAIN seed_map)
    IN  [i \in 1..Len(ks) |->
            Entry(ks[Len(ks) + 1 - i], seed_map[ks[Len(ks) + 1 - i]])]

\* [{'seed': s, 'proposals': p} for s, p in sorted(seed_map.items())]
SeedsList(seed_map) ==
    LET ks == SortKeys(DOMAIN seed_map)
    IN  [i \in 1..Len(ks) |-> Entry(ks[i], seed_map[ks[i]])]

\* The dict load_merged_database returns when the file does not exist.
EmptyDatabase(time) ==
    [text |-> "json",
     meta |-> [created |-> time, updated |-> time, total_seeds |-> 0,
               combinations_found |-> 0, coverage_percent |-> 0],
     proposals |-> "PROPOSAL_DEFINITIONS",
     seeds |-> <<>>]

\* The dict save_merged_database dumps.
MergedDocument(seed_map, time) ==
    LET found == calculate_combinations(seed_map)
        seeds_list == SeedsList(seed_map)
    IN  [text |-> "json",
         meta |-> [updated |-> time,
                   total_seeds |-> Len(seeds_list),
                   combinations_found |-> Cardinality(found),
                   total_combinations |-> TOTAL_COMBINATIONS,
                   coverage_percent |-> CoveragePercent(Cardinality(found))],
         proposals |-> "PROPOSAL_DEFINITIONS",
         seeds |-> seeds_list]

\* The dict save_clean_json dumps (src/process-harvest.py:1530-1534).
SnapshotDocument(clean_seeds_, timestamp_) ==
    [text |-> "json", harvested |-> timestamp_, count |-> Len(clean_seeds_),
     seeds |-> clean_seeds_]

(***************************************************************************)
(* The frontend document (src/process-harvest.py:179-197, 202-1317,        *)
(* 1619-1739).  A document is the sequence of its lines (what split and    *)
(* join by "\n" convert to and from); a line is its text and, on a SEED_DB *)
(* line, the data literal after it.  The stretches of the template that    *)
(* hold no marker are one line each, and the version and generation date   *)
(* stamps are left out.                                                    *)
(***************************************************************************)
Line(text) == [text |-> text, data |-> <<>>]

PROPOSALS_MARK == "        const PROPOSALS = {"

SEED_DB_MARK == "        const SEED_DB = "

LET_MARK == "        let selectedProposals = [];"

\* 'const PROPOSALS = {' in line
HasProposalsMark(line) == line.text = PROPOSALS_MARK

\* 'const SEED_DB = ' in line
HasSeedDbMark(line) == line.text = SEED_DB_MARK

\* line.strip().startswith('let selectedProposals')
HasLetMark(line) == line.text = LET_MARK

\* FRONTEND_PROPOSALS_JS, up to the empty text after its last newline.
FRONTEND_PROPOSALS_JS ==
    << Line(PROPOSALS_MARK), Line("            (catalog entries) };"),
       Line("        ") >>

\* compact_seeds with sorted(..., reverse=True).
CompactSeedsDescending(seed_map) ==
    LET ks == SortKeys(DOMAIN seed_map)
    IN  [i \in 1..Len(ks) |->
            [s |-> ks[Len(ks) + 1 - i], p |-> seed_map[ks[Len(ks) + 1 - i]]]]

\* seed_db: the compact literal, entries sorted by seed code.
CompactSeeds(seed_map) ==
    LET ks == SortKeys(DOMAIN seed_map)
    IN  [i \in 1..Len(ks) |-> [s |-> ks[i], p |-> seed_map[ks[i]]]]

SeedDbLiteral(seed_map) ==
    [count |-> Len(CompactSeeds(seed_map)), seeds |-> CompactSeeds(seed_map)]

SeedDbLine(seed_map) ==
    [text |-> SEED_DB_MARK, data |-> <<SeedDbLiteral(seed_map)>>]

\* FRONTEND_HTML_TEMPLATE.format(...): "{proposals_js}{seed_db_js}" and the
\* line break of the template give the SEED_DB line and an empty line.
TemplateDocument(seed_map) ==
    <<Line("(template, lines 202-993)")>> \o FRONTEND_PROPOSALS_JS
        \o <<SeedDbLine(seed_map), Line(""), Line(LET_MARK),
             Line("(template, lines 996-1317)")>>

\* The loop at 1668-1675 from line i on; 0 stands for None.
RECURSIVE ScanMarkers(_, _, _)
ScanMarkers(lines, i, m) ==
    IF i > Len(lines) THEN m
    ELSE IF HasProposalsMark(lines[i])
         THEN ScanMarkers(lines, i + 1, [m EXCEPT !.proposals_start = i])
    ELSE IF HasSeedDbMark(lines[i])
         THEN ScanMarkers(lines, i + 1, [m EXCEPT !.seed_db_start = i])
    ELSE IF m.seed_db_start # 0 /\ HasLetMark(lines[i])
         THEN [m EXCEPT !.seed_db_end = i]
    ELSE ScanMarkers(lines, i + 1, m)

\* update_frontend that writes the template whatever it finds.
update_frontend_regenerates(file, seed_map) == TemplateDocument(seed_map)

\* The document update_frontend writes, given the file it finds.
update_frontend(file, seed_map) ==
    IF file = NoFile THEN TemplateDocument(seed_map)
    ELSE LET lines == file[1]
             m == ScanMarkers(lines, 1,
                      [proposals_start |-> 0, seed_db_start |-> 0,
                       seed_db_end |-> 0])
         IN  IF m.proposals_start = 0 \/ m.seed_db_start = 0
             THEN TemplateDocument(seed_map)
             ELSE SubSeq(lines, 1, m.proposals_start - 1)
                    \o FRONTEND_PROPOSALS_JS \o <<SeedDbLine(seed_map)>>
                    \o (IF m.seed_db_end = 0 THEN lines
                        ELSE SubSeq(lines, m.seed_db_end, Len(lines)))

\* The document regenerate_frontend writes.
regenerate_frontend(seed_map) == TemplateDocument(seed_map)

(***************************************************************************)
(* What the harvester leaves in output/seed-log.csv.                       *)
(***************************************************************************)
ABC12 == <<"A", "B", "C", "1", "2">>

XYZ99 == <<"X", "Y", "Z", "9", "9">>

HeaderRow == <<T("seed"), T("proposal1"), T("proposal2"), T("proposal3")>>

RowA1 == <<ABC12, T("Fusion Plant"), T("PADU"), T("Second Monitor")>>

RowA2 ==
    <<<<" ">> \o ABC12, T("PADU") \o <<" ">>, T("Poems DB"), T("Remote Backups")>>

RowX == <<XYZ99, T("Second Monitor"), T("PADU"), T("Fusion Plant")>>

RowUnknown == <<XYZ99, UNKNOWN, T("PADU"), T("Fusion Plant")>>

RowShortSeed == <<<<"A", "B", "1">>, T("Fusion Plant"), T("PADU"), T("Poems DB")>>

RowBadChar ==
    <<<<"A", "B", "_", "1", "2">>, T("Fusion Plant"), T("PADU"), T("Poems DB")>>

RowFewCells == <<ABC12, T("Fusion Plant"), T("PADU")>>

HarvestFiles ==
    { <<>>,
      <<HeaderRow, RowFewCells>>,
      <<HeaderRow, RowUnknown, RowShortSeed>>,
      <<HeaderRow, RowA2, RowBadChar, RowUnknown, RowA1>>,
      <<HeaderRow, RowA1, RowX>> }

(***************************************************************************)
(* State.                                                                  *)
(***************************************************************************)
VARIABLES
    csv,          \* output/seed-log.csv: NoFile or File(CsvDocument(rows))
    db,           \* merged-seeds.json: NoFile or File(document)
    backups,      \* merged-seeds-backup-<timestamp>.json, by timestamp
    snapshots,    \* clean-seeds-<timestamp>.json, by timestamp
    archives,     \* seed-log-<timestamp>.csv, by timestamp
    frontend,     \* tni-seed-finder.html: NoFile or File(lines)
    dirs,         \* the four directories of __main__ have been made
    now,          \* the wall clock, in seconds
    runs,         \* invocations of the script so far
    pc,           \* position of the running invocation
    mode,         \* "full", "dry", "stats" or "regen"
    timestamp,    \* run_pipeline's timestamp
    raw_seeds, clean, removed, existing, seed_map, new_count, merge_dupes,
    found_combos, missing,    \* run_pipeline's locals of the same names
    raisedAt,     \* the step whose exception ended the invocation
    fs0,          \* the files as the invocation found them
    wrote,        \* the files the invocation has written to or removed
    fin, fout     \* input and output of a function applied on its own

files == <<csv, db, backups, snapshots, archives, frontend>>

locals ==
    <<raw_seeds, clean, removed, existing, seed_map, new_count, merge_dupes,
      found_combos, missing>>

harness == <<fin, fout>>

vars ==
    <<csv, db, backups, snapshots, archives, frontend, dirs, now, runs, pc,
      mode, timestamp, raw_seeds, clean, removed, existing, seed_map,
      new_count, merge_dupes, found_combos, missing, raisedAt, fs0, wrote, fin, fout>>

FS ==
    [csv |-> csv, db |-> db, backups |-> backups, snapshots |-> snapshots,
     archives |-> archives, frontend |-> frontend]

NoDocument == [text |-> "none"]

CsvDocument(rows) == [text |-> "csv", rows |-> rows]

Modes == {"full", "dry", "stats", "regen"}

Returned ==
    {"no_input", "empty_csv", "empty_batch", "dry_stop", "complete",
     "stats_done", "regen_done"}

NoLocals ==
    /\ raw_seeds = <<>>
    /\ clean = <<>>
    /\ removed = NoRemoved
    /\ existing = NoDocument
    /\ seed_map = EmptyMap
    /\ new_count = 0
    /\ merge_dupes = 0
    /\ found_combos = {}
    /\ missing = <<>>

NoFiles ==
    /\ csv = NoFile
    /\ db = NoFile
    /\ backups = EmptyMap
    /\ snapshots = EmptyMap
    /\ archives = EmptyMap
    /\ frontend = NoFile

Idle ==
    /\ pc = "idle"
    /\ mode = "full"
    /\ timestamp = 0
    /\ raisedAt = ""
    /\ NoLocals

\* A fresh checkout: no data yet, nothing harvested.
Init ==
    /\ NoFiles
    /\ dirs = FALSE
    /\ now = 0
    /\ runs = 0
    /\ Idle
    /\ fs0 = FS
    /\ wrote = {}
    /\ fin = <<>>
    /\ fout = <<>>

(***************************************************************************)
(* The harvester (an external program) leaves a CSV in output/.            *)
(***************************************************************************)
Harvest ==
    /\ pc = "idle"
    /\ \E rows \in HarvestFiles : csv' = File(CsvDocument(rows))
    /\ UNCHANGED <<db, backups, snapshots, archives, frontend, dirs, now, runs,
                   pc, mode, timestamp, locals, raisedAt, fs0, wrote, harness>>

(***************************************************************************)
(* __main__ (src/process-harvest.py:1963-1989): make the directories and   *)
(* dispatch on the command line; run_pipeline reads the clock first        *)
(* (1822).                                                                 *)
(***************************************************************************)
StartAs(m) ==
    /\ pc = "idle"
    /\ runs < MaxRuns
    /\ runs' = runs + 1
    /\ dirs' = TRUE
    /\ mode' = m
    /\ \E t \in {now, now + 1} \cap 1..MaxClock : now' = t /\ timestamp' = t
    /\ pc' = "start"
    /\ fs0' = FS
    /\ wrote' = {}
    /\ UNCHANGED <<files, locals, raisedAt, harness>>

Start == \E m \in Modes : StartAs(m)

\* json.load on a file whose text was cut short raises.
Loadable == db # File(Truncated)

\* load_merged_database (src/process-harvest.py:1417-1440)
load_merged_database == IF db = NoFile THEN EmptyDatabase(now) ELSE db[1]

LoadRaises ==
    /\ \/ pc = "start" /\ mode \in {"stats", "regen"}
       \/ pc = "cleaned"
    /\ ~Loadable
    /\ pc' = "raised"
    /\ raisedAt' = "load"
    /\ UNCHANGED <<files, dirs, now, runs, mode, timestamp, locals, fs0, wrote, harness>>

(***************************************************************************)
(* run_pipeline, steps 1 to 4 (src/process-harvest.py:1826-1890).          *)
(***************************************************************************)
StepCheck ==
    /\ pc = "start"
    /\ mode \in {"full", "dry"}
    /\ IF csv = NoFile
       THEN /\ pc' = "no_input"
            /\ UNCHANGED raw_seeds
       ELSE /\ raw_seeds' = read_csv(csv[1].rows)
            /\ pc' = IF Len(raw_seeds') = 0 THEN "empty_csv" ELSE "read"
    /\ UNCHANGED <<files, dirs, now, runs, mode, timestamp, clean, removed,
                   existing, seed_map, new_count, merge_dupes, found_combos,
                   missing, raisedAt, fs0, wrote, harness>>

\* StepClean without the check at 1854-1856: an empty clean batch goes on.
StepCleanNoAbort ==
    /\ pc = "read"
    /\ LET r == clean_seeds(raw_seeds)
       IN  /\ clean' = r.clean
           /\ removed' = r.removed
           /\ pc' = "cleaned"
    /\ UNCHANGED <<files, dirs, now, runs, mode, timestamp, raw_seeds,
                   existing, seed_map, new_count, merge_dupes, found_combos,
                   missing, raisedAt, fs0, wrote, harness>>

StepClean ==
    /\ pc = "read"
    /\ LET r == clean_seeds(raw_seeds)
       IN  /\ clean' = r.clean
           /\ removed' = r.removed
           /\ pc' = IF Len(r.clean) = 0 THEN "empty_batch" ELSE "cleaned"
    /\ UNCHANGED <<files, dirs, now, runs, mode, timestamp, raw_seeds,
                   existing, seed_map, new_count, merge_dupes, found_combos,
                   missing, raisedAt, fs0, wrote, harness>>

\* StepLoad that starts a dry run from an empty database.
StepLoadNotInDryRun ==
    /\ pc = "cleaned"
    /\ Loadable
    /\ existing' = IF mode = "dry" THEN EmptyDatabase(now)
                                   ELSE load_merged_database
    /\ pc' = "loaded"
    /\ UNCHANGED <<files, dirs, now, runs, mode, timestamp, raw_seeds, clean,
                   removed, seed_map, new_count, merge_dupes, found_combos,
                   missing, raisedAt, fs0, wrote, harness>>

StepLoad ==
    /\ pc = "cleaned"
    /\ Loadable
    /\ existing' = load_merged_database
    /\ pc' = "loaded"
    /\ UNCHANGED <<files, dirs, now, runs, mode, timestamp, raw_seeds, clean,
                   removed, seed_map, new_count, merge_dupes, found_combos,
                   missing, raisedAt, fs0, wrote, harness>>

\* StepMerge handed the records as read, not the cleaned ones.
StepMergeRawSeeds ==
    /\ pc = "loaded"
    /\ LET r == merge_seeds(existing, raw_seeds)
       IN  /\ seed_map' = r.seed_map
           /\ new_count' = r.new_count
           /\ merge_dupes' = r.duplicate_count
           /\ found_combos' = calculate_combinations(r.seed_map)
           /\ missing' =
                get_missing_combinations(calculate_combinations(r.seed_map))
    /\ pc' = "merged"
    /\ UNCHANGED <<files, dirs, now, runs, mode, timestamp, raw_seeds, clean,
                   removed, existing, raisedAt, fs0, wrote, harness>>

StepMerge ==
    /\ pc = "loaded"
    /\ LET r == merge_seeds(existing, clean)
       IN  /\ seed_map' = r.seed_map
           /\ new_count' = r.new_count
           /\ merge_dupes' = r.duplicate_count
           /\ found_combos' = calculate_combinations(r.seed_map)
           /\ missing' =
                get_missing_combinations(calculate_combinations(r.seed_map))
    /\ pc' = "merged"
    /\ UNCHANGED <<files, dirs, now, runs, mode, timestamp, raw_seeds, clean,
                   removed, existing, raisedAt, fs0, wrote, harness>>

\* StepDryStop with the dry-run check placed after step 5.
StepDryStopAfterSnapshot ==
    /\ pc = "merged"
    /\ mode = "dry"
    /\ snapshots' = Put(snapshots, timestamp, SnapshotDocument(clean, timestamp))
    /\ wrote' = wrote \cup {"snapshot"}
    /\ pc' = "dry_stop"
    /\ UNCHANGED <<csv, db, backups, archives, frontend, dirs, now, runs, mode,
                   timestamp, locals, raisedAt, fs0, harness>>

\* if dry_run: return (1895-1897)
StepDryStop ==
    /\ pc = "merged"
    /\ mode = "dry"
    /\ pc' = "dry_stop"
    /\ UNCHANGED <<files, dirs, now, runs, mode, timestamp, locals, raisedAt,
                   fs0, wrote, harness>>

(***************************************************************************)
(* run_pipeline, steps 5 to 8 and cleanup (src/process-harvest.py:         *)
(* 1899-1944).  Nothing catches an exception: a step that raises ends the  *)
(* invocation.  A write that fails leaves its file as it was (open failed) *)
(* or cut short (the write failed after open truncated the file).          *)
(***************************************************************************)
\* Raise with the exception caught and logged: the pipeline goes on.
RaiseSwallowed(step) ==
    /\ raisedAt' = step
    /\ pc' = CASE step = "snapshot" -> "snapshot"
              [] step = "backup" -> "backedup"
              [] step = "save" -> "saved"
              [] step = "frontend" -> IF mode = "regen" THEN "regen_done"
                                                        ELSE "published"
              [] OTHER -> "archived"

Raise(step) ==
    /\ pc' = "raised"
    /\ raisedAt' = step

\* save_clean_json (1514-1539)
StepSnapshot ==
    /\ pc = "merged"
    /\ mode = "full"
    /\ snapshots' = Put(snapshots, timestamp, SnapshotDocument(clean, timestamp))
    /\ wrote' = wrote \cup {"snapshot"}
    /\ pc' = "snapshot"
    /\ UNCHANGED <<csv, db, backups, archives, frontend, dirs, now, runs, mode,
                   timestamp, locals, raisedAt, fs0, harness>>

StepSnapshotFails ==
    /\ pc = "merged"
    /\ mode = "full"
    /\ \/ UNCHANGED <<snapshots, wrote>>
       \/ /\ snapshots' = Put(snapshots, timestamp, Truncated)
          /\ wrote' = wrote \cup {"snapshot"}
    /\ Raise("snapshot")
    /\ UNCHANGED <<csv, db, backups, archives, frontend, dirs, now, runs, mode,
                   timestamp, locals, fs0, harness>>

\* StepBackup that copies nothing.
StepBackupSkips ==
    /\ pc = "snapshot"
    /\ pc' = "backedup"
    /\ UNCHANGED <<csv, db, backups, snapshots, archives, frontend, dirs, now,
                   runs, mode, timestamp, locals, raisedAt, fs0, wrote,
                   harness>>

\* StepBackup that copies the database as it will be after the save.
StepBackupCopiesMerged ==
    /\ pc = "snapshot"
    /\ IF db = NoFile
       THEN UNCHANGED <<backups, wrote>>
       ELSE /\ backups' = Put(backups, timestamp, MergedDocument(seed_map, now))
            /\ wrote' = wrote \cup {"backup"}
    /\ pc' = "backedup"
    /\ UNCHANGED <<csv, db, snapshots, archives, frontend, dirs, now, runs,
                   mode, timestamp, locals, raisedAt, fs0, harness>>

\* backup_merged_database (1596-1616)
StepBackup ==
    /\ pc = "snapshot"
    /\ IF db = NoFile
       THEN UNCHANGED <<backups, wrote>>
       ELSE /\ backups' = Put(backups, timestamp, db[1])
            /\ wrote' = wrote \cup {"backup"}
    /\ pc' = "backedup"
    /\ UNCHANGED <<csv, db, snapshots, archives, frontend, dirs, now, runs,
                   mode, timestamp, locals, raisedAt, fs0, harness>>

StepBackupFails ==
    /\ pc = "snapshot"
    /\ db # NoFile
    /\ \/ UNCHANGED <<backups, wrote>>
       \/ /\ backups' = Put(backups, timestamp, Truncated)
          /\ wrote' = wrote \cup {"backup"}
    /\ Raise("backup")
    /\ UNCHANGED <<csv, db, snapshots, archives, frontend, dirs, now, runs,
                   mode, timestamp, locals, fs0, harness>>

\* StepSave that writes the batch instead of the merged map.
StepSaveBatchOnly ==
    /\ pc = "backedup"
    /\ db' = File(MergedDocument(MapOfSeeds(clean), now))
    /\ wrote' = wrote \cup {"database"}
    /\ pc' = "saved"
    /\ UNCHANGED <<csv, backups, snapshots, archives, frontend, dirs, now,
                   runs, mode, timestamp, locals, raisedAt, fs0, harness>>

\* save_merged_database (1542-1571)
StepSave ==
    /\ pc = "backedup"
    /\ db' = File(MergedDocument(seed_map, now))
    /\ wrote' = wrote \cup {"database"}
    /\ pc' = "saved"
    /\ UNCHANGED <<csv, backups, snapshots, archives, frontend, dirs, now,
                   runs, mode, timestamp, locals, raisedAt, fs0, harness>>

\* open(MERGED_JSON, 'w') truncates the file before json.dump writes to it.
StepSaveFails ==
    /\ pc = "backedup"
    /\ \/ UNCHANGED <<db, wrote>>
       \/ /\ db' = File(Truncated)
          /\ wrote' = wrote \cup {"database"}
    /\ Raise("save")
    /\ UNCHANGED <<csv, backups, snapshots, archives, frontend, dirs, now,
                   runs, mode, timestamp, locals, fs0, harness>>

\* The strict prefixes of a document.
CutShort(lines) == {SubSeq(lines, 1, k) : k \in 0..(Len(lines) - 1)}

\* update_frontend (1619-1704)
StepFrontend ==
    /\ pc = "saved"
    /\ frontend' = File(update_frontend(frontend, seed_map))
    /\ wrote' = wrote \cup {"frontend"}
    /\ pc' = "published"
    /\ UNCHANGED <<csv, db, backups, snapshots, archives, dirs, now, runs,
                   mode, timestamp, locals, raisedAt, fs0, harness>>

StepFrontendFails ==
    /\ pc = "saved"
    /\ \/ UNCHANGED <<frontend, wrote>>
       \/ /\ \E d \in CutShort(update_frontend(frontend, seed_map)) :
                 frontend' = File(d)
          /\ wrote' = wrote \cup {"frontend"}
    /\ Raise("frontend")
    /\ UNCHANGED <<csv, db, backups, snapshots, archives, dirs, now, runs,
                   mode, timestamp, locals, fs0, harness>>

\* StepArchive without the copy.
StepArchiveSkips ==
    /\ pc = "published"
    /\ pc' = "archived"
    /\ UNCHANGED <<files, dirs, now, runs, mode, timestamp, locals, raisedAt,
                   fs0, wrote, harness>>

\* archive_csv (1574-1593)
StepArchive ==
    /\ pc = "published"
    /\ IF csv = NoFile
       THEN UNCHANGED <<archives, wrote>>
       ELSE /\ archives' = Put(archives, timestamp, csv[1])
            /\ wrote' = wrote \cup {"archive"}
    /\ pc' = "archived"
    /\ UNCHANGED <<csv, db, backups, snapshots, frontend, dirs, now, runs,
                   mode, timestamp, locals, raisedAt, fs0, harness>>

StepArchiveFails ==
    /\ pc = "published"
    /\ csv # NoFile
    /\ \/ UNCHANGED <<archives, wrote>>
       \/ /\ archives' = Put(archives, timestamp, Truncated)
          /\ wrote' = wrote \cup {"archive"}
    /\ Raise("archive")
    /\ UNCHANGED <<csv, db, backups, snapshots, frontend, dirs, now, runs,
                   mode, timestamp, locals, fs0, harness>>

\* clear_output_directory (1742-1752)
StepClear ==
    /\ pc = "archived"
    /\ csv' = NoFile
    /\ wrote' = IF csv = NoFile THEN wrote ELSE wrote \cup {"output"}
    /\ pc' = "complete"
    /\ UNCHANGED <<db, backups, snapshots, archives, frontend, dirs, now, runs,
                   mode, timestamp, locals, raisedAt, fs0, harness>>

(***************************************************************************)
(* The other modes of __main__.                                            *)
(***************************************************************************)
\* show_stats (1759-1793)
ShowStats ==
    /\ pc = "start"
    /\ mode = "stats"
    /\ Loadable
    /\ existing' = load_merged_database
    /\ seed_map' = MapOfSeeds(existing'.seeds)
    /\ found_combos' = calculate_combinations(seed_map')
    /\ missing' = get_missing_combinations(found_combos')
    /\ pc' = "stats_done"
    /\ UNCHANGED <<files, dirs, now, runs, mode, timestamp, raw_seeds, clean,
                   removed, new_count, merge_dupes, raisedAt, fs0, wrote,
                   harness>>

\* --regenerate-frontend (1975-1985)
Regenerate ==
    /\ pc = "start"
    /\ mode = "regen"
    /\ Loadable
    /\ existing' = load_merged_database
    /\ seed_map' = MapOfSeeds(existing'.seeds)
    /\ frontend' = File(regenerate_frontend(seed_map'))
    /\ wrote' = wrote \cup {"frontend"}
    /\ pc' = "regen_done"
    /\ UNCHANGED <<csv, db, backups, snapshots, archives, dirs, now, runs,
                   mode, timestamp, raw_seeds, clean, removed, new_count,
                   merge_dupes, found_combos, missing, raisedAt, fs0, harness>>

RegenerateFails ==
    /\ pc = "start"
    /\ mode = "regen"
    /\ Loadable
    /\ existing' = load_merged_database
    /\ seed_map' = MapOfSeeds(existing'.seeds)
    /\ \/ UNCHANGED <<frontend, wrote>>
       \/ /\ \E d \in CutShort(regenerate_frontend(seed_map')) :
                 frontend' = File(d)
          /\ wrote' = wrote \cup {"frontend"}
    /\ Raise("frontend")
    /\ UNCHANGED <<csv, db, backups, snapshots, archives, dirs, now, runs,
                   mode, timestamp, raw_seeds, clean, removed, new_count,
                   merge_dupes, found_combos, missing, fs0, harness>>

\* The process ends; its locals are gone.
ProcessEnds ==
    /\ pc \in Returned \cup {"raised"}
    /\ pc' = "idle"
    /\ mode' = "full"
    /\ timestamp' = 0
    /\ raisedAt' = ""
    /\ raw_seeds' = <<>>
    /\ clean' = <<>>
    /\ removed' = NoRemoved
    /\ existing' = NoDocument
    /\ seed_map' = EmptyMap
    /\ new_count' = 0
    /\ merge_dupes' = 0
    /\ found_combos' = {}
    /\ missing' = <<>>
    /\ fs0' = FS
    /\ wrote' = {}
    /\ UNCHANGED <<files, dirs, now, runs>>

Exit ==
    /\ ProcessEnds
    /\ UNCHANGED harness

Next ==
    \/ Harvest
    \/ Start
    \/ LoadRaises
    \/ StepCheck
    \/ StepClean
    \/ StepLoad
    \/ StepMerge
    \/ StepDryStop
    \/ StepSnapshot
    \/ StepSnapshotFails
    \/ StepBackup
    \/ StepBackupFails
    \/ StepSave
    \/ StepSaveFails
    \/ StepFrontend
    \/ StepFrontendFails
    \/ StepArchive
    \/ StepArchiveFails
    \/ StepClear
    \/ ShowStats
    \/ Regenerate
    \/ RegenerateFails
    \/ Exit

Spec == Init /\ [][Next]_vars

(***************************************************************************)
(* merge_seeds on its own: every database and batch over a small pool of   *)
(* seed codes and proposal lists.  The second application merges the same  *)
(* batch into the database holding the result of the first.                *)
(***************************************************************************)
TripleA == <<T("Fusion Plant"), T("PADU"), T("Second Monitor")>>

TripleB == <<T("PADU"), T("Poems DB"), T("Remote Backups")>>

EntryPool == {Entry(s, p) : s \in {ABC12, XYZ99}, p \in {TripleA, TripleB}}

SeedMaps ==
    UNION {[keys -> {TripleA, TripleB}] : keys \in SUBSET {ABC12, XYZ99}}

Databases == {MergedDocument(m, 1) : m \in SeedMaps}

Batches == UNION {[1..n -> EntryPool] : n \in 0..MaxBatch}

InitHarness ==
    /\ NoFiles
    /\ dirs = FALSE
    /\ now = 0
    /\ runs = 0
    /\ Idle
    /\ fs0 = FS
    /\ wrote = {}

InitMerge ==
    /\ InitHarness
    /\ \E d \in Databases, b \in Batches : fin = <<d, b>>
    /\ fout = <<>>

MergeOnce ==
    /\ Len(fin) = 2
    /\ fout = <<>>
    /\ fout' = <<merge_seeds(fin[1], fin[2])>>
    /\ UNCHANGED <<files, dirs, now, runs, pc, mode, timestamp, locals,
                   raisedAt, fs0, wrote, fin>>

MergeAgain ==
    /\ Len(fin) = 2
    /\ Len(fout) = 1
    /\ fout' = Append(fout,
                      merge_seeds(MergedDocument(fout[1].seed_map, 1), fin[2]))
    /\ UNCHANGED <<files, dirs, now, runs, pc, mode, timestamp, locals,
                   raisedAt, fs0, wrote, fin>>

NextMerge == MergeOnce \/ MergeAgain

SpecMerge == InitMerge /\ [][NextMerge]_vars

\* No seed code occurs twice in the batch.
CleanBatch(batch) ==
    \A i, j \in 1..Len(batch) : batch[i].seed = batch[j].seed => i = j

\* C1: merge_seeds is first-write-wins: every seed code of the existing
\* database maps, in the returned seed map, to the proposals it had in the
\* existing database, whatever the batch carries for that seed code.
C1_FirstWriteWins ==
    Len(fout) >= 1 =>
        \A i \in 1..Len(fin[1].seeds) :
            /\ fin[1].seeds[i].seed \in DOMAIN fout[1].seed_map
            /\ fout[1].seed_map[fin[1].seeds[i].seed] = fin[1].seeds[i].proposals

\* C1, its case: the batch carries other proposals for an existing seed code.
C1_Witness ==
    /\ Len(fout) >= 1
    /\ \E i \in 1..Len(fin[1].seeds), j \in 1..Len(fin[2]) :
          /\ fin[2][j].seed = fin[1].seeds[i].seed
          /\ fin[2][j].proposals # fin[1].seeds[i].proposals

\* C2: merging a clean batch a second time, into the result of the first
\* merge, adds nothing: new_count = 0, duplicate_count = |batch|, and the
\* seed map is the one the first merge returned.
C2_MergeIdempotent ==
    (Len(fout) = 2 /\ CleanBatch(fin[2])) =>
        /\ fout[2].new_count = 0
        /\ fout[2].duplicate_count = Len(fin[2])
        /\ fout[2].seed_map = fout[1].seed_map

\* C2, its case: the first merge inserted a seed, the second ran.
C2_Witness ==
    /\ Len(fout) = 2
    /\ CleanBatch(fin[2])
    /\ fout[1].new_count > 0
    /\ fout[1].duplicate_count > 0

(***************************************************************************)
(* Properties of the pipeline, under Spec.                                 *)
(***************************************************************************)
SeedMapOf(file) == IF file = NoFile THEN EmptyMap ELSE MapOfSeeds(file[1].seeds)

\* C3: a run that completes keeps every seed of the persisted database,
\* with the proposals it had: the seed map after the run is a superset of
\* the seed map before it.
C3_NoSeedLost ==
    (pc \in Returned /\ fs0.db # File(Truncated)) =>
        /\ db # File(Truncated)
        /\ \A s \in DOMAIN SeedMapOf(fs0.db) :
              /\ s \in DOMAIN SeedMapOf(db)
              /\ SeedMapOf(db)[s] = SeedMapOf(fs0.db)[s]

\* C3, its case: a completed full run that added a seed to a database which
\* already held a seed of the batch.
C3_Witness ==
    /\ pc = "complete"
    /\ fs0.db # NoFile
    /\ new_count > 0
    /\ merge_dupes > 0
    /\ \E i \in 1..Len(clean) :
          /\ clean[i].seed \in DOMAIN SeedMapOf(fs0.db)
          /\ clean[i].proposals # SeedMapOf(fs0.db)[clean[i].seed]

\* C4: in a full run that found a database, once the database file has been
\* written to (completely or not), the backup of this run holds the
\* database as the run found it.
C4_BackupBeforeOverwrite ==
    (mode = "full" /\ fs0.db # NoFile /\ "database" \in wrote) =>
        /\ timestamp \in DOMAIN backups
        /\ backups[timestamp] = fs0.db[1]

\* C4, its case: the run was interrupted while overwriting the database.
C4_Witness ==
    /\ mode = "full"
    /\ pc = "raised"
    /\ raisedAt = "save"
    /\ fs0.db # NoFile
    /\ db = File(Truncated)

PastBackup ==
    \/ pc \in {"backedup", "saved", "published", "archived", "complete"}
    \/ pc = "raised" /\ raisedAt \in {"save", "frontend", "archive"}

\* C5 as stated: the backup a run wrote is a copy of the database before
\* the run, and a full run that returns has written a backup if and only
\* if a (well-formed) database file existed before it.
C5_BackupIffDatabaseExisted ==
    (mode = "full" /\ pc \in Returned /\ fs0.db # File(Truncated)) =>
        /\ ("backup" \in wrote) <=> (fs0.db # NoFile)
        /\ "backup" \in wrote => backups[timestamp] = fs0.db[1]

\* C5, amended: a backup is written only by a full run that found a
\* database; a full run that gets past its backup step has written one if
\* and only if a database file existed before the run, and it is then an
\* exact copy of that file; without a database file the load is no error
\* and gives an empty database (no seeds, zero coverage).
C5_BackupAtBackupStep ==
    /\ "backup" \in wrote => (mode = "full" /\ fs0.db # NoFile)
    /\ (mode = "full" /\ PastBackup) =>
          /\ ("backup" \in wrote) <=> (fs0.db # NoFile)
          /\ fs0.db # NoFile =>
                /\ timestamp \in DOMAIN backups
                /\ backups[timestamp] = fs0.db[1]
          /\ fs0.db = NoFile => backups = fs0.backups
    /\ (pc # "idle" /\ fs0.db = NoFile) =>
          /\ raisedAt # "load"
          /\ existing # NoDocument =>
                /\ existing.seeds = <<>>
                /\ existing.meta.total_seeds = 0
                /\ existing.meta.combinations_found = 0
                /\ existing.meta.coverage_percent = 0

\* C5, its cases: a completed full run that backed the database up, and
\* (below) a first run, which did not.
C5_Witness ==
    /\ mode = "full"
    /\ pc = "complete"
    /\ "backup" \in wrote
    /\ backups[timestamp] = fs0.db[1]
    /\ db # fs0.db

\* C6: a dry run changes no file: database, backups, snapshots, frontend,
\* archives and output/seed-log.csv are as the run found them.
C6_DryRunWritesNothing ==
    mode = "dry" => (FS = fs0 /\ wrote = {})

\* C6, its case: a dry run that went through the merge with seeds to add.
C6_Witness ==
    /\ mode = "dry"
    /\ pc = "dry_stop"
    /\ new_count > 0
    /\ fs0.db # NoFile

\* The run has nothing to process: no CSV, no record in it, or no record
\* left after cleaning.
NothingToProcess ==
    \/ fs0.csv = NoFile
    \/ Len(read_csv(fs0.csv[1].rows)) = 0
    \/ Len(clean_seeds(read_csv(fs0.csv[1].rows)).clean) = 0

\* C8: a full run with nothing to process returns before step 3 without
\* raising and writes nothing.
C8_NothingToProcessNoWrite ==
    (mode = "full" /\ pc # "idle" /\ NothingToProcess) =>
        /\ pc \in {"start", "read", "no_input", "empty_csv", "empty_batch"}
        /\ FS = fs0
        /\ wrote = {}

\* C8, its case: every record of the CSV was rejected, with a database and a
\* frontend in place.
C8_Witness ==
    /\ mode = "full"
    /\ pc = "empty_batch"
    /\ removed.unknown + removed.invalid > 0
    /\ fs0.db # NoFile

\* C9: after a failed save_merged_database the database file holds the
\* complete previous content or the complete new content.
C9_NoPartialDatabase ==
    raisedAt = "save" =>
        \/ db = fs0.db
        \/ db = File(MergedDocument(seed_map, now))

WriteSteps == {"snapshot", "backup", "save", "frontend", "archive"}

Computed ==
    [clean |-> clean, removed |-> removed, new_count |-> new_count,
     merge_dupes |-> merge_dupes, seed_map |-> seed_map,
     found_combos |-> found_combos, missing |-> missing]

InitDryFull ==
    /\ csv \in {NoFile} \cup {File(CsvDocument(rows)) : rows \in HarvestFiles}
    /\ db \in {NoFile} \cup {File(d) : d \in Databases}
    /\ backups = EmptyMap
    /\ snapshots = EmptyMap
    /\ archives = EmptyMap
    /\ frontend = NoFile
    /\ dirs = TRUE
    /\ now = 1
    /\ runs = 0
    /\ Idle
    /\ fs0 = FS
    /\ wrote = {}
    /\ fin = <<>>
    /\ fout = <<>>

StartDryThenFull ==
    \/ runs = 0 /\ StartAs("dry")
    \/ runs = 1 /\ StartAs("full")

ExitObserved ==
    /\ mode = "dry"
    /\ ProcessEnds
    /\ fout' = <<[csv |-> fs0.csv, db |-> fs0.db,
                  stage |-> IF pc = "dry_stop" THEN "merged" ELSE pc,
                  computed |-> Computed]>>
    /\ UNCHANGED fin

NextDryFull ==
    \/ StartDryThenFull
    \/ StepCheck
    \/ StepClean
    \/ StepLoad
    \/ StepMerge
    \/ StepDryStop
    \/ ExitObserved

SpecDryFull == InitDryFull /\ [][NextDryFull]_vars

\* C7: on the same CSV and the same database a full run stops or goes on
\* where the dry run did, with the same clean batch, removal counts,
\* new_count, merge duplicate count, seed map, found set and missing list.
C7_DryRunComputesTheSame ==
    (/\ mode = "full"
     /\ Len(fout) = 1
     /\ pc \in {"no_input", "empty_csv", "empty_batch", "merged"}) =>
        /\ fout[1].csv = fs0.csv
        /\ fout[1].db = fs0.db
        /\ fout[1].stage = pc
        /\ fout[1].computed = Computed

\* C7, its case: both runs went through the merge of a batch with a new
\* seed and a seed the database holds.
C7_Witness ==
    /\ mode = "full"
    /\ Len(fout) = 1
    /\ pc = "merged"
    /\ new_count > 0
    /\ merge_dupes > 0
    /\ fout[1].computed.new_count > 0

(***************************************************************************)
(* clean_seeds on its own, followed by merge_seeds of the clean batch:     *)
(* every raw batch of up to MaxRaw records over a pool of seed codes       *)
(* (two valid ones, one too short, one with a character that is not        *)
(* alphanumeric, the empty one) and proposal lists (two catalog triples    *)
(* and one holding the UNKNOWN sentinel).                                  *)
(***************************************************************************)
TripleUnknown == <<UNKNOWN, T("PADU"), T("Fusion Plant")>>

RawSeeds ==
    {ABC12, XYZ99, <<"A", "B", "1">>, <<"A", "B", "_", "1", "2">>, <<>>}

RawPool ==
    {Entry(s, p) : s \in RawSeeds, p \in {TripleA, TripleB, TripleUnknown}}

RawBatches == UNION {[1..n -> RawPool] : n \in 0..MaxRaw}

CleanDatabases ==
    {EmptyDatabase(1), MergedDocument(Put(EmptyMap, ABC12, TripleB), 1)}

InitClean ==
    /\ InitHarness
    /\ \E b \in RawBatches, d \in CleanDatabases : fin = <<b, d>>
    /\ fout = <<>>

CleanOnce ==
    /\ Len(fin) = 2
    /\ fout = <<>>
    /\ fout' = <<clean_seeds(fin[1])>>
    /\ UNCHANGED <<files, dirs, now, runs, pc, mode, timestamp, locals,
                   raisedAt, fs0, wrote, fin>>

MergeCleaned ==
    /\ Len(fin) = 2
    /\ Len(fout) = 1
    /\ fout' = Append(fout, merge_seeds(fin[2], fout[1].clean))
    /\ UNCHANGED <<files, dirs, now, runs, pc, mode, timestamp, locals,
                   raisedAt, fs0, wrote, fin>>

NextClean == CleanOnce \/ MergeCleaned

SpecClean == InitClean /\ [][NextClean]_vars

\* clean_seeds is a left fold: its result on the first i records is the
\* accumulator after i iterations of its loop.
CleanedPrefix(i) == clean_seeds(SubSeq(fin[1], 1, i))

FiveAlphanumeric(seed) ==
    Len(seed) = 5 /\ \A k \in 1..5 : seed[k] \in Letters \cup Digits

NoUnknownIn(proposals) == \A k \in 1..Len(proposals) : proposals[k] # UNKNOWN

FirstOccurrence(i) == \A j \in 1..(i - 1) : fin[1][j].seed # fin[1][i].seed

Occurs(e, seq) == \E k \in 1..Len(seq) : seq[k] = e

\* C11: a record with a seed code of exactly 5 alphanumeric characters and
\* no "UNKNOWN" proposal is, at its first occurrence in the batch, appended
\* to the clean batch and leaves the three removal counters as they were;
\* it is in the clean batch clean_seeds returns.
C11_ValidRecordAccepted ==
    Len(fout) >= 1 =>
        \A i \in 1..Len(fin[1]) :
            ( /\ FiveAlphanumeric(fin[1][i].seed)
              /\ NoUnknownIn(fin[1][i].proposals)
              /\ FirstOccurrence(i) ) =>
                /\ CleanedPrefix(i).clean =
                       Append(CleanedPrefix(i - 1).clean, fin[1][i])
                /\ CleanedPrefix(i).removed = CleanedPrefix(i - 1).removed
                /\ Occurs(fin[1][i], fout[1].clean)

\* A valid record is accepted after two records were refused, one of them
\* with the same proposals.
C11_Witness ==
    /\ Len(fout) >= 1
    /\ Len(fin[1]) = 3
    /\ FiveAlphanumeric(fin[1][3].seed)
    /\ NoUnknownIn(fin[1][3].proposals)
    /\ FirstOccurrence(3)
    /\ fout[1].removed.unknown = 1
    /\ fout[1].removed.invalid = 1
    /\ fout[1].clean = <<fin[1][3]>>

\* C12: a record with an "UNKNOWN" proposal adds one to removed['unknown']
\* and nothing to removed['invalid'], removed['duplicates'] or the clean
\* batch, whether its seed code is valid or not.
C12_UnknownCountedAsUnknown ==
    Len(fout) >= 1 =>
        \A i \in 1..Len(fin[1]) :
            ~NoUnknownIn(fin[1][i].proposals) =>
                /\ CleanedPrefix(i).removed =
                       [CleanedPrefix(i - 1).removed EXCEPT !.unknown = @ + 1]
                /\ CleanedPrefix(i).clean = CleanedPrefix(i - 1).clean

\* Two records carry "UNKNOWN", one under a valid seed code and one under a
\* seed code that is too short; both are counted as unknown.
C12_Witness ==
    /\ Len(fout) >= 1
    /\ \E i, j \in 1..Len(fin[1]) :
           /\ ~NoUnknownIn(fin[1][i].proposals)
           /\ FiveAlphanumeric(fin[1][i].seed)
           /\ ~NoUnknownIn(fin[1][j].proposals)
           /\ Len(fin[1][j].seed) # 5
    /\ fout[1].removed.unknown = 2
    /\ fout[1].removed.invalid = 0

\* C13 as stated: a record whose seed code is not exactly 5 characters long
\* adds one to removed['invalid'] whatever its proposals are, "UNKNOWN"
\* included.
C13_InvalidBeforeUnknown ==
    Len(fout) >= 1 =>
        \A i \in 1..Len(fin[1]) :
            Len(fin[1][i].seed) # 5 =>
                CleanedPrefix(i).removed =
                    [CleanedPrefix(i - 1).removed EXCEPT !.invalid = @ + 1]

\* C13, as the code has it: a record whose seed code is not exactly 5
\* characters long is never accepted; it adds one to removed['invalid']
\* when none of its proposals is "UNKNOWN" and one to removed['unknown']
\* (and none to removed['invalid']) when one is, the sentinel being tested
\* first.
C13_InvalidWhenNoUnknown ==
    Len(fout) >= 1 =>
        \A i \in 1..Len(fin[1]) :
            Len(fin[1][i].seed) # 5 =>
                /\ CleanedPrefix(i).clean = CleanedPrefix(i - 1).clean
                /\ ~Occurs(fin[1][i], fout[1].clean)
                /\ CleanedPrefix(i).removed =
                       IF NoUnknownIn(fin[1][i].proposals)
                       THEN [CleanedPrefix(i - 1).removed
                                 EXCEPT !.invalid = @ + 1]
                       ELSE [CleanedPrefix(i - 1).removed
                                 EXCEPT !.unknown = @ + 1]

\* A batch with the empty seed code and a 3-character seed code under
\* catalog proposals (both invalid) and a 3-character seed code under
\* "UNKNOWN" (unknown).
C13_Witness ==
    /\ Len(fout) >= 1
    /\ Len(fin[1]) = 3
    /\ fin[1][1].seed = <<>> /\ NoUnknownIn(fin[1][1].proposals)
    /\ Len(fin[1][2].seed) = 3 /\ NoUnknownIn(fin[1][2].proposals)
    /\ Len(fin[1][3].seed) = 3 /\ ~NoUnknownIn(fin[1][3].proposals)
    /\ fout[1].removed = [unknown |-> 1, invalid |-> 2, duplicates |-> 0]

\* The record at i passes validation.
Passes(i) ==
    FiveAlphanumeric(fin[1][i].seed) /\ NoUnknownIn(fin[1][i].proposals)

\* The record at i is the first of its seed code that passes validation.
FirstPassing(i) ==
    /\ Passes(i)
    /\ \A j \in 1..(i - 1) : Passes(j) => fin[1][j].seed # fin[1][i].seed

SeedsOfExisting == {fin[2].seeds[k].seed : k \in 1..Len(fin[2].seeds)}

\* C14: the clean batch holds no seed code twice; of the records of one
\* seed code that pass validation the first is the one kept, and each later
\* one adds one to removed['duplicates'] and nothing to the clean batch.  A
\* batch of one valid seed code twice gives one clean record, duplicates = 1
\* and, merged into an empty database, new_count = 1.
C14_CleanBatchHasNoRepeatedSeed ==
    Len(fout) >= 1 =>
        /\ \A k, l \in 1..Len(fout[1].clean) :
               fout[1].clean[k].seed = fout[1].clean[l].seed => k = l
        /\ \A i \in 1..Len(fin[1]) :
               /\ FirstPassing(i) => Occurs(fin[1][i], fout[1].clean)
               /\ (Passes(i) /\ ~FirstPassing(i)) =>
                      /\ CleanedPrefix(i).clean = CleanedPrefix(i - 1).clean
                      /\ CleanedPrefix(i).removed =
                             [CleanedPrefix(i - 1).removed
                                  EXCEPT !.duplicates = @ + 1]
        /\ ( /\ Len(fin[1]) = 2
             /\ Passes(1) /\ Passes(2)
             /\ fin[1][1].seed = fin[1][2].seed ) =>
               /\ fout[1].clean = <<fin[1][1]>>
               /\ fout[1].removed.duplicates = 1
               /\ (Len(fout) = 2 /\ fin[2].seeds = <<>>) =>
                      fout[2].new_count = 1

\* One valid seed code twice, under different proposals, cleaned and merged
\* into an empty database.
C14_Witness ==
    /\ Len(fout) = 2
    /\ Len(fin[1]) = 2
    /\ Passes(1) /\ Passes(2)
    /\ fin[1][1].seed = fin[1][2].seed
    /\ fin[1][1].proposals # fin[1][2].proposals
    /\ fin[2].seeds = <<>>
    /\ fout[1].removed.duplicates = 1
    /\ fout[2].new_count = 1

\* C15: two valid records with the same proposals under different seed
\* codes are both kept by clean_seeds, neither is counted as a duplicate of
\* the other, and after merge_seeds both seed codes are keys of the seed
\* map, each one not already in the database with the record's proposals.
C15_SameProposalsNotDuplicates ==
    Len(fout) >= 1 =>
        \A i, j \in 1..Len(fin[1]) :
            ( /\ FirstPassing(i) /\ FirstPassing(j)
              /\ fin[1][i].seed # fin[1][j].seed
              /\ fin[1][i].proposals = fin[1][j].proposals ) =>
                /\ Occurs(fin[1][i], fout[1].clean)
                /\ Occurs(fin[1][j], fout[1].clean)
                /\ (Len(fin[1]) = 2 => fout[1].removed.duplicates = 0)
                /\ Len(fout) = 2 =>
                       /\ {fin[1][i].seed, fin[1][j].seed}
                              \subseteq DOMAIN fout[2].seed_map
                       /\ \A e \in {fin[1][i], fin[1][j]} :
                              e.seed \notin SeedsOfExisting =>
                                  fout[2].seed_map[e.seed] = e.proposals
                       /\ fout[2].new_count >=
                              Cardinality({fin[1][i].seed, fin[1][j].seed}
                                              \ SeedsOfExisting)

\* Two seed codes under the same proposals, merged into an empty database:
\* two new seeds.
C15_Witness ==
    /\ Len(fout) = 2
    /\ Len(fin[1]) = 2
    /\ Passes(1) /\ Passes(2)
    /\ fin[1][1].seed # fin[1][2].seed
    /\ fin[1][1].proposals = fin[1][2].proposals
    /\ fin[2].seeds = <<>>
    /\ fout[2].new_count = 2
    /\ Cardinality(DOMAIN fout[2].seed_map) = 2

(***************************************************************************)
(* Coverage on its own: a raw batch is cleaned and merged into a database, *)
(* the document save_merged_database would dump is built and the missing   *)
(* list computed; then the clean batch is merged again with its records,   *)
(* or the proposals of one record, in another order.  The proposal lists   *)
(* of the pool are two catalog triples, one of them also in another order, *)
(* and a list that names one proposal twice.                               *)
(***************************************************************************)
ZYX21 == <<"Z", "Y", "X", "2", "1">>

TripleARotated == <<T("PADU"), T("Second Monitor"), T("Fusion Plant")>>

TripleRepeated == <<T("PADU"), T("PADU"), T("Fusion Plant")>>

CoverPool ==
    {Entry(s, p) : s \in {XYZ99, ZYX21},
                   p \in {TripleA, TripleARotated, TripleB, TripleRepeated}}

CoverBatches == UNION {[1..n -> CoverPool] : n \in 0..MaxRaw}

Perms(n) == {p \in [1..n -> 1..n] : \A i, j \in 1..n : p[i] = p[j] => i = j}

Permuted(seq, p) == [i \in 1..Len(seq) |-> seq[p[i]]]

\* What run_pipeline and save_merged_database compute from a merged map.
Coverage(batch, existing_data) ==
    LET m == merge_seeds(existing_data, batch).seed_map
        doc == MergedDocument(m, 1)
    IN  [seed_map |-> m,
         found |-> calculate_combinations(m),
         combinations_found |-> doc.meta.combinations_found,
         coverage_percent |-> doc.meta.coverage_percent]

InitCoverage ==
    /\ InitHarness
    /\ \E b \in CoverBatches, d \in CleanDatabases : fin = <<b, d>>
    /\ fout = <<>>

Cover ==
    /\ Len(fin) = 2
    /\ fout = <<>>
    /\ LET batch == clean_seeds(fin[1]).clean
           c == Coverage(batch, fin[2])
       IN  /\ fin' = Append(fin, batch)
           /\ fout' = <<[seed_map |-> c.seed_map, found |-> c.found,
                         combinations_found |-> c.combinations_found,
                         coverage_percent |-> c.coverage_percent,
                         missing |-> get_missing_combinations(c.found)]>>
    /\ UNCHANGED <<files, dirs, now, runs, pc, mode, timestamp, locals,
                   raisedAt, fs0, wrote>>

PermuteRecords ==
    /\ Len(fin) = 3
    /\ Len(fout) = 1
    /\ \E p \in Perms(Len(fin[3])) :
           /\ fin' = Append(fin, Permuted(fin[3], p))
           /\ fout' = Append(fout, Coverage(Permuted(fin[3], p), fin[2]))
    /\ UNCHANGED <<files, dirs, now, runs, pc, mode, timestamp, locals,
                   raisedAt, fs0, wrote>>

PermuteProposals ==
    /\ Len(fin) = 3
    /\ Len(fout) = 1
    /\ \E i \in 1..Len(fin[3]), p \in Perms(3) :
           LET batch == [fin[3] EXCEPT ![i].proposals = Permuted(@, p)]
           IN  /\ fin' = Append(fin, batch)
               /\ fout' = Append(fout, Coverage(batch, fin[2]))
    /\ UNCHANGED <<files, dirs, now, runs, pc, mode, timestamp, locals,
                   raisedAt, fs0, wrote>>

NextCoverage == Cover \/ PermuteRecords \/ PermuteProposals

SpecCoverage == InitCoverage /\ [][NextCoverage]_vars

Orders(keys) ==
    {o \in [1..Cardinality(keys) -> keys] :
        \A i, j \in 1..Cardinality(keys) : o[i] = o[j] => i = j}

Extends(M2, M) ==
    /\ DOMAIN M \subseteq DOMAIN M2
    /\ \A s \in DOMAIN M : M2[s] = M[s]

CombinationsFoundIn(file) ==
    IF file = NoFile THEN 0 ELSE file[1].meta.combinations_found

\* C17: a seed map that extends another has at least as many combinations;
\* the map merge_seeds returns has at least as many as the database it was
\* merged into, and combinations_found of the database file after a run
\* that returned is at least what it was before the run.
C17_CoverageMonotone ==
    /\ \A M \in SeedMaps, M2 \in SeedMaps :
           Extends(M2, M) =>
               Cardinality(calculate_combinations(M2))
                   >= Cardinality(calculate_combinations(M))
    /\ (mode \in {"full", "dry"} /\ pc = "merged") =>
           /\ Extends(seed_map, MapOfSeeds(existing.seeds))
           /\ Cardinality(found_combos) >=
                  Cardinality(calculate_combinations(MapOfSeeds(existing.seeds)))
    /\ (pc \in Returned /\ fs0.db # File(Truncated)) =>
           /\ db # File(Truncated)
           /\ CombinationsFoundIn(db) >= CombinationsFoundIn(fs0.db)

\* A full run added a seed with a combination the database did not have:
\* combinations_found went from 1 to 2.
C17_Witness ==
    /\ pc = "complete"
    /\ fs0.db # NoFile
    /\ fs0.db # File(Truncated)
    /\ new_count > 0
    /\ CombinationsFoundIn(fs0.db) = 1
    /\ CombinationsFoundIn(db) = 2

(***************************************************************************)
(* A database one combination short of the catalog: one seed for each of   *)
(* the 455 combinations but one.  A harvest of one record is cleaned and   *)
(* merged into it, and coverage and the missing list are computed as       *)
(* run_pipeline and save_merged_database compute them.                     *)
(***************************************************************************)
DigitChars == <<"0", "1", "2", "3", "4", "5", "6", "7", "8", "9">>

\* A seed code for the i-th combination: S000 .. S455 followed by 0.
SeedNo(i) ==
    <<"S", DigitChars[(i \div 100) + 1], DigitChars[((i \div 10) % 10) + 1],
      DigitChars[(i % 10) + 1], "0">>

\* The combinations left out, one at a time.
MissingChoices == {j \in 1..TOTAL_COMBINATIONS : j % 35 = 0}

AlmostFullDatabase(j) ==
    [text |-> "json",
     meta |-> [updated |-> 1,
               total_seeds |-> TOTAL_COMBINATIONS - 1,
               combinations_found |-> TOTAL_COMBINATIONS - 1,
               total_combinations |-> TOTAL_COMBINATIONS,
               coverage_percent |-> CoveragePercent(TOTAL_COMBINATIONS - 1)],
     proposals |-> "PROPOSAL_DEFINITIONS",
     seeds |-> [k \in 1..(TOTAL_COMBINATIONS - 1) |->
                   LET i == IF k < j THEN k ELSE k + 1
                   IN  Entry(SeedNo(i), Combinations3[i])]]

InitAlmostFull ==
    /\ InitHarness
    /\ \E j \in MissingChoices : fin = <<j, AlmostFullDatabase(j)>>
    /\ fout = <<>>

\* One record under the seed code that is free, cleaned and merged.
Harvested(entry) ==
    LET batch == clean_seeds(<<entry>>).clean
        m == merge_seeds(fin[2], batch)
        found == calculate_combinations(m.seed_map)
    IN  /\ fout' = <<[added |-> entry,
                      new_count |-> m.new_count,
                      combinations_found |-> Cardinality(found),
                      coverage_percent |-> CoveragePercent(Cardinality(found)),
                      missing |-> get_missing_combinations(found)]>>
        /\ UNCHANGED <<files, dirs, now, runs, pc, mode, timestamp, locals,
                       raisedAt, fs0, wrote, fin>>

\* The record carries the combination that was missing, in catalog order or
\* in another order.
AddMissing ==
    /\ Len(fin) = 2
    /\ fout = <<>>
    /\ \E p \in Perms(3) :
           Harvested(Entry(SeedNo(fin[1]), Permuted(Combinations3[fin[1]], p)))

\* The record carries a combination the database has.
AddFound ==
    /\ Len(fin) = 2
    /\ fout = <<>>
    /\ Harvested(Entry(SeedNo(fin[1]),
                       Combinations3[(fin[1] % TOTAL_COMBINATIONS) + 1]))

\* The record names one proposal twice.
AddRepeated ==
    /\ Len(fin) = 2
    /\ fout = <<>>
    /\ LET c == Combinations3[fin[1]]
       IN  Harvested(Entry(SeedNo(fin[1]), <<c[1], c[1], c[2]>>))

NextAlmostFull == AddMissing \/ AddFound \/ AddRepeated

SpecAlmostFull == InitAlmostFull /\ [][NextAlmostFull]_vars

\* C18: when the record added to a database that lacks one combination
\* carries that combination, coverage_percent is exactly 100 and the
\* missing list is empty; and whatever was added, the missing list is empty
\* exactly when coverage_percent is 100.
C18_FullCoverageIffNothingMissing ==
    Len(fout) = 1 =>
        /\ ToSet(fout[1].added.proposals) = ToSet(Combinations3[fin[1]]) =>
               /\ fout[1].coverage_percent = 1000000
               /\ fout[1].missing = <<>>
        /\ fout[1].missing = <<>> <=> fout[1].coverage_percent = 1000000

\* C19: every combination counted for a database made from a raw batch is
\* a set of 3 different catalog names, so combinations_found is at most
\* 455, coverage_percent at most 100, and combinations_found plus the
\* length of the missing list is 455.  (Under SpecCoverage.)
C19_OnlyCatalogCombinations ==
    Len(fout) >= 1 =>
        /\ \A c \in fout[1].found :
               Cardinality(c) = 3 /\ c \subseteq ToSet(ALL_PROPOSALS)
        /\ fout[1].combinations_found <= TOTAL_COMBINATIONS
        /\ fout[1].coverage_percent <= 1000000
        /\ fout[1].combinations_found + Len(fout[1].missing)
               = TOTAL_COMBINATIONS

\* C20: whenever the database file holds a document, its seeds array has
\* no seed code twice and is in ascending order of seed code, total_seeds
\* is the length of the array and combinations_found the number of
\* different proposal sets in it.  (Under Spec, which starts with no
\* database.)
C20_SeedCodeIsUniqueSortedKey ==
    (db # NoFile /\ db # File(Truncated)) =>
        LET seeds == db[1].seeds
        IN  /\ \A i, j \in 1..Len(seeds) :
                   seeds[i].seed = seeds[j].seed => i = j
            /\ \A i \in 1..(Len(seeds) - 1) :
                   StrLess(seeds[i].seed, seeds[i + 1].seed)
            /\ db[1].meta.total_seeds = Len(seeds)
            /\ db[1].meta.combinations_found =
                   Cardinality({ToSet(seeds[i].proposals) :
                                    i \in 1..Len(seeds)})

\* The second full run found its seed code in the database and added
\* another: two seeds, in order, under two runs.
C20_Witness ==
    /\ pc = "complete"
    /\ runs = 2
    /\ fs0.db # NoFile
    /\ merge_dupes > 0
    /\ new_count > 0
    /\ db # File(Truncated)
    /\ Len(db[1].seeds) = 2
    /\ db[1].meta.total_seeds = 2

(***************************************************************************)
(* Accounting and frame of merge_seeds, under SpecMerge.                   *)
(***************************************************************************)
ExistingSeeds == {fin[1].seeds[i].seed : i \in 1..Len(fin[1].seeds)}

BatchSeeds == {fin[2][i].seed : i \in 1..Len(fin[2])}

\* C25: merge_seeds counts every batch record once, as new or as duplicate:
\* new_count + duplicate_count is the length of the batch, and the returned
\* map has as many keys as the existing database has seed codes plus
\* new_count.
C25_MergeAccountsForEveryRecord ==
    Len(fout) >= 1 =>
        /\ fout[1].new_count + fout[1].duplicate_count = Len(fin[2])
        /\ Cardinality(DOMAIN fout[1].seed_map) =
               Cardinality(ExistingSeeds) + fout[1].new_count

\* A batch of two records under one new seed code, merged into a database
\* that holds another seed: one new, one duplicate.
C25_Witness ==
    /\ Len(fout) >= 1
    /\ Len(fin[2]) = 2
    /\ fin[2][1].seed = fin[2][2].seed
    /\ fin[2][1].seed \notin ExistingSeeds
    /\ ExistingSeeds # {}
    /\ fout[1].new_count = 1
    /\ fout[1].duplicate_count = 1

\* C26: the keys of the returned map are the existing seed codes and the
\* seed codes of the batch, nothing else; an existing seed code keeps its
\* proposals, and a new one has the proposals of its first record in the
\* batch, in the order the record lists them.
C26_MergeOnlyInserts ==
    Len(fout) >= 1 =>
        /\ DOMAIN fout[1].seed_map = ExistingSeeds \cup BatchSeeds
        /\ \A i \in 1..Len(fin[1].seeds) :
               fout[1].seed_map[fin[1].seeds[i].seed]
                   = fin[1].seeds[i].proposals
        /\ \A i \in 1..Len(fin[2]) :
               ( /\ fin[2][i].seed \notin ExistingSeeds
                 /\ \A j \in 1..(i - 1) : fin[2][j].seed # fin[2][i].seed ) =>
                   fout[1].seed_map[fin[2][i].seed] = fin[2][i].proposals

\* A new seed code occurs twice in the batch under different proposals and
\* the database holds another seed code.
C26_Witness ==
    /\ Len(fout) >= 1
    /\ Len(fin[2]) = 2
    /\ fin[2][1].seed = fin[2][2].seed
    /\ fin[2][1].proposals # fin[2][2].proposals
    /\ fin[2][1].seed \notin ExistingSeeds
    /\ Cardinality(ExistingSeeds) = 1
    /\ Cardinality(DOMAIN fout[1].seed_map) = 2

(***************************************************************************)
(* Partition by clean_seeds, under SpecClean.                              *)
(***************************************************************************)
\* a can be had from b by leaving records out.
RECURSIVE IsSubsequence(_, _)
IsSubsequence(a, b) ==
    IF a = <<>> THEN TRUE
    ELSE IF b = <<>> THEN FALSE
    ELSE IF Head(a) = Head(b) THEN IsSubsequence(Tail(a), Tail(b))
    ELSE IsSubsequence(a, Tail(b))

\* What the i-th record did to the result: the outcomes among accepted,
\* unknown, invalid and duplicate that describe it.
OutcomesOf(i) ==
    LET a == CleanedPrefix(i - 1)
        b == CleanedPrefix(i)
    IN  {o \in {"accepted", "unknown", "invalid", "duplicate"} :
            /\ b.clean = IF o = "accepted" THEN Append(a.clean, fin[1][i])
                         ELSE a.clean
            /\ b.removed.unknown =
                   a.removed.unknown + (IF o = "unknown" THEN 1 ELSE 0)
            /\ b.removed.invalid =
                   a.removed.invalid + (IF o = "invalid" THEN 1 ELSE 0)
            /\ b.removed.duplicates =
                   a.removed.duplicates + (IF o = "duplicate" THEN 1 ELSE 0)}

\* C27: every raw record has exactly one outcome, so the length of the
\* clean batch and the three removal counters add up to the number of raw
\* records; the clean batch is a subsequence of the raw batch.
C27_CleanPartitionsBatch ==
    Len(fout) >= 1 =>
        /\ \A i \in 1..Len(fin[1]) : Cardinality(OutcomesOf(i)) = 1
        /\ Len(fout[1].clean) + fout[1].removed.unknown
               + fout[1].removed.invalid + fout[1].removed.duplicates
               = Len(fin[1])
        /\ IsSubsequence(fout[1].clean, fin[1])

\* A refused record stands between two accepted ones and carries both the
\* sentinel and a seed code that is not valid.
C27_Witness ==
    /\ Len(fout) >= 1
    /\ Len(fin[1]) = 3
    /\ fout[1].clean = <<fin[1][1], fin[1][3]>>
    /\ ~NoUnknownIn(fin[1][2].proposals)
    /\ ~FiveAlphanumeric(fin[1][2].seed)

(***************************************************************************)
(* The missing list, under SpecCoverage.                                   *)
(***************************************************************************)
\* The 3-subsets of the catalog.
CatalogCombinations ==
    {{ALL_PROPOSALS[i], ALL_PROPOSALS[j], ALL_PROPOSALS[k]} :
        i \in 1..Len(ALL_PROPOSALS), j \in 1..Len(ALL_PROPOSALS),
        k \in 1..Len(ALL_PROPOSALS)}
    \ {{ALL_PROPOSALS[i], ALL_PROPOSALS[j]} :
        i \in 1..Len(ALL_PROPOSALS), j \in 1..Len(ALL_PROPOSALS)}

\* Python's order on the catalog names: ALL_PROPOSALS lists them ascending.
Rank(name) == CHOOSE i \in 1..Len(ALL_PROPOSALS) : ALL_PROPOSALS[i] = name

\* Python's < on tuples of three names.
TupleLess(a, b) ==
    \/ Rank(a[1]) < Rank(b[1])
    \/ a[1] = b[1] /\ Rank(a[2]) < Rank(b[2])
    \/ a[1] = b[1] /\ a[2] = b[2] /\ Rank(a[3]) < Rank(b[3])

\* C28: the missing list holds the catalog combinations that are not in
\* the found set and no other, each once, each as the tuple of its names in
\* ascending order, and the tuples follow each other in ascending order.
C28_MissingIsComplement ==
    Len(fout) = 1 =>
        LET miss == fout[1].missing
        IN  /\ Cardinality(CatalogCombinations) = TOTAL_COMBINATIONS
            /\ {ToSet(miss[k]) : k \in 1..Len(miss)}
                   = CatalogCombinations \ fout[1].found
            /\ Cardinality({ToSet(miss[k]) : k \in 1..Len(miss)}) = Len(miss)
            /\ \A k \in 1..Len(miss) :
                   /\ Len(miss[k]) = 3
                   /\ Rank(miss[k][1]) < Rank(miss[k][2])
                   /\ Rank(miss[k][2]) < Rank(miss[k][3])
            /\ \A k \in 1..(Len(miss) - 1) : TupleLess(miss[k], miss[k + 1])

\* Two catalog combinations and a set that is not one were found: 453 of
\* the 455 are missing.
C28_Witness ==
    /\ Len(fout) = 1
    /\ Cardinality(fout[1].found) = 3
    /\ Cardinality(fout[1].found \cap CatalogCombinations) = 2
    /\ Len(fout[1].missing) = TOTAL_COMBINATIONS - 2

(***************************************************************************)
(* The text of the merged database (src/process-harvest.py:1417-1440,      *)
(* 1542-1571).  json.dump writes the document as JSON text and json.load   *)
(* parses it; the text is a sequence of tokens, one per punctuation mark,  *)
(* key, digit and character.  A string is written between quotes with its  *)
(* quotes and backslashes escaped, a number in decimal digits.             *)
(***************************************************************************)
RECURSIVE Escaped(_)
Escaped(s) ==
    IF s = <<>> THEN <<>>
    ELSE (IF Head(s) \in {"\"", "\\"} THEN <<"\\", Head(s)>> ELSE <<Head(s)>>)
             \o Escaped(Tail(s))

\* A json.dump that writes the characters of a string as they are.
JsonStringUnescaped(s) == <<"\"">> \o s \o <<"\"">>

JsonString(s) == <<"\"">> \o Escaped(s) \o <<"\"">>

RECURSIVE JsonNumber(_)
JsonNumber(n) ==
    IF n < 10 THEN <<DigitChars[n + 1]>>
    ELSE JsonNumber(n \div 10) \o <<DigitChars[(n % 10) + 1]>>

JsonEntry(e) ==
    <<"{", "\"seed\":">> \o JsonString(e.seed)
        \o <<",", "\"proposals\":", "[">> \o JsonString(e.proposals[1])
        \o <<",">> \o JsonString(e.proposals[2])
        \o <<",">> \o JsonString(e.proposals[3]) \o <<"]", "}">>

RECURSIVE JsonEntries(_)
JsonEntries(seeds) ==
    IF seeds = <<>> THEN <<>>
    ELSE IF Len(seeds) = 1 THEN JsonEntry(seeds[1])
    ELSE JsonEntry(Head(seeds)) \o <<",">> \o JsonEntries(Tail(seeds))

\* json.dump(data, f, indent=2) of the dict save_merged_database builds.
json_dump(data) ==
    <<"{", "\"meta\":", "{", "\"updated\":">>
        \o JsonNumber(data.meta.updated)
        \o <<",", "\"total_seeds\":">> \o JsonNumber(data.meta.total_seeds)
        \o <<",", "\"combinations_found\":">>
        \o JsonNumber(data.meta.combinations_found)
        \o <<",", "\"total_combinations\":">>
        \o JsonNumber(data.meta.total_combinations)
        \o <<",", "\"coverage_percent\":">>
        \o JsonNumber(data.meta.coverage_percent)
        \o <<"}", ",", "\"proposals\":", data.proposals, ",", "\"seeds\":",
             "[">>
        \o JsonEntries(data.seeds) \o <<"]", "}">>

\* The parser: each step returns the value read and the position after it;
\* position 0 stands for the JSONDecodeError json.load raises.
Failed == [value |-> <<>>, next |-> 0]

At(text, pos, token) == pos > 0 /\ pos <= Len(text) /\ text[pos] = token

Skip(text, pos, token) == IF At(text, pos, token) THEN pos + 1 ELSE 0

RECURSIVE ScanChars(_, _, _)
ScanChars(text, pos, acc) ==
    IF pos > Len(text) THEN Failed
    ELSE IF text[pos] = "\"" THEN [value |-> acc, next |-> pos + 1]
    ELSE IF text[pos] = "\\"
         THEN IF pos + 1 > Len(text) THEN Failed
              ELSE ScanChars(text, pos + 2, Append(acc, text[pos + 1]))
    ELSE ScanChars(text, pos + 1, Append(acc, text[pos]))

ParseString(text, pos) ==
    IF At(text, pos, "\"") THEN ScanChars(text, pos + 1, <<>>) ELSE Failed

DigitValue(c) == CHOOSE n \in 0..9 : DigitChars[n + 1] = c

RECURSIVE ScanDigits(_, _, _)
ScanDigits(text, pos, acc) ==
    IF pos <= Len(text) /\ text[pos] \in Digits
    THEN ScanDigits(text, pos + 1, 10 * acc + DigitValue(text[pos]))
    ELSE [value |-> acc, next |-> pos]

ParseNumber(text, pos) ==
    IF pos > 0 /\ pos <= Len(text) /\ text[pos] \in Digits
    THEN ScanDigits(text, pos, 0)
    ELSE Failed

ParseEntry(text, pos) ==
    LET s == ParseString(text, Skip(text, Skip(text, pos, "{"), "\"seed\":"))
        p1 == ParseString(text,
                  Skip(text, Skip(text, Skip(text, s.next, ","),
                                  "\"proposals\":"), "["))
        p2 == ParseString(text, Skip(text, p1.next, ","))
        p3 == ParseString(text, Skip(text, p2.next, ","))
        end == Skip(text, Skip(text, p3.next, "]"), "}")
    IN  IF end = 0 THEN Failed
        ELSE [value |-> Entry(s.value, <<p1.value, p2.value, p3.value>>),
              next |-> end]

RECURSIVE ParseEntries(_, _, _)
ParseEntries(text, pos, acc) ==
    IF At(text, pos, "]") THEN [value |-> acc, next |-> pos + 1]
    ELSE LET e == ParseEntry(text, pos)
         IN  IF At(text, e.next, ",") /\ ~At(text, e.next + 1, "]")
             THEN ParseEntries(text, e.next + 1, Append(acc, e.value))
             ELSE IF At(text, e.next, "]")
             THEN [value |-> Append(acc, e.value), next |-> e.next + 1]
             ELSE Failed

\* What json.load makes of a text that is not a JSON document.
Invalid == [text |-> "invalid"]

\* json.load(f) of the text of a merged database.
json_load(text) ==
    LET updated == ParseNumber(text,
            Skip(text, Skip(text, Skip(text, Skip(text, 1, "{"), "\"meta\":"),
                            "{"), "\"updated\":"))
        total_seeds == ParseNumber(text,
            Skip(text, Skip(text, updated.next, ","), "\"total_seeds\":"))
        combinations_found == ParseNumber(text,
            Skip(text, Skip(text, total_seeds.next, ","),
                 "\"combinations_found\":"))
        total_combinations == ParseNumber(text,
            Skip(text, Skip(text, combinations_found.next, ","),
                 "\"total_combinations\":"))
        coverage_percent == ParseNumber(text,
            Skip(text, Skip(text, total_combinations.next, ","),
                 "\"coverage_percent\":"))
        proposals == Skip(text, Skip(text, Skip(text, coverage_percent.next,
                                                "}"), ","), "\"proposals\":")
        seeds == IF proposals = 0 \/ proposals > Len(text) THEN Failed
                 ELSE ParseEntries(text,
                          Skip(text, Skip(text, Skip(text, proposals + 1, ","),
                                          "\"seeds\":"), "["), <<>>)
    IN  IF Skip(text, seeds.next, "}") # Len(text) + 1 THEN Invalid
        ELSE [text |-> "json",
              meta |-> [updated |-> updated.value,
                        total_seeds |-> total_seeds.value,
                        combinations_found |-> combinations_found.value,
                        total_combinations |-> total_combinations.value,
                        coverage_percent |-> coverage_percent.value],
              proposals |-> text[proposals],
              seeds |-> seeds.value]

(***************************************************************************)
(* The round trip of the database: save_merged_database on a seed map,     *)
(* load_merged_database on the text it wrote, with and without its end.    *)
(***************************************************************************)
TripleQuoted == <<T("PADU"), <<"a", "\"", "b">>, <<"c", "\\">>>>

RoundTripMaps ==
    UNION {[keys -> {TripleA, TripleB, TripleQuoted}] :
               keys \in SUBSET {ABC12, XYZ99, ZYX21}}

InitRoundTrip ==
    /\ InitHarness
    /\ \E m \in RoundTripMaps : fin = <<m>>
    /\ fout = <<>>

\* save_merged_database(seed_map): the text in merged-seeds.json.
SaveMap ==
    /\ Len(fin) = 1
    /\ fout = <<>>
    /\ fout' = <<json_dump(MergedDocument(fin[1], 1))>>
    /\ UNCHANGED <<files, dirs, now, runs, pc, mode, timestamp, locals,
                   raisedAt, fs0, wrote, fin>>

\* load_merged_database() on that text, and the map merge_seeds builds of it.
LoadMap ==
    /\ Len(fin) = 1
    /\ Len(fout) = 1
    /\ LET existing_data == json_load(fout[1])
       IN  fout' = Append(fout,
                      [existing_data |-> existing_data,
                       seed_map |-> IF existing_data = Invalid THEN EmptyMap
                                    ELSE MapOfSeeds(existing_data.seeds)])
    /\ UNCHANGED <<files, dirs, now, runs, pc, mode, timestamp, locals,
                   raisedAt, fs0, wrote, fin>>

NextRoundTrip == SaveMap \/ LoadMap

SpecRoundTrip == InitRoundTrip /\ [][NextRoundTrip]_vars

\* C21: for every seed map, the text save_merged_database writes is loaded
\* by load_merged_database as a document from which merge_seeds rebuilds
\* the same map (the same seed codes, each with the same proposals in the
\* same order), and the metadata of the document are the counts computed
\* from that seed map.
C21_SaveLoadRoundTrip ==
    Len(fout) = 2 =>
        /\ fout[2].existing_data.text = "json"
        /\ DOMAIN fout[2].seed_map = DOMAIN fin[1]
        /\ \A s \in DOMAIN fin[1] : fout[2].seed_map[s] = fin[1][s]
        /\ fout[2].existing_data.meta.total_seeds = Cardinality(DOMAIN fin[1])
        /\ fout[2].existing_data.meta.combinations_found
               = Cardinality(calculate_combinations(fin[1]))
        /\ fout[2].existing_data.meta.coverage_percent
               = CoveragePercent(Cardinality(calculate_combinations(fin[1])))
        /\ fout[2].existing_data.meta.total_combinations = TOTAL_COMBINATIONS

\* Reached: a map of three seeds, one of them with a proposal holding a
\* quote, saved and loaded.
C21_Witness ==
    /\ Len(fout) = 2
    /\ Cardinality(DOMAIN fin[1]) = 3
    /\ \E s \in DOMAIN fin[1] : fin[1][s] = TripleQuoted
    /\ \E s \in DOMAIN fout[2].seed_map : fout[2].seed_map[s] = TripleQuoted

(***************************************************************************)
(* update_frontend and regenerate_frontend on the documents they can find  *)
(* in index.html: none, the document of the template, a document whose     *)
(* markup around the data section was restyled, and what a write that      *)
(* stopped part-way left of either.                                        *)
(***************************************************************************)
RestyledDocument(map) ==
    <<Line("(restyled head)"), Line("(restyled styles)")>>
        \o FRONTEND_PROPOSALS_JS
        \o <<SeedDbLine(map), Line(LET_MARK), Line("(restyled script)"),
             Line("(restyled tail)")>>

PublishedMaps == {EmptyMap, Put(EmptyMap, ABC12, TripleB)}

WholeDocuments ==
    {TemplateDocument(m) : m \in PublishedMaps}
        \cup {RestyledDocument(m) : m \in PublishedMaps}

FrontendFiles ==
    {NoFile} \cup {File(d) : d \in WholeDocuments}
        \cup {File(p) : p \in UNION {CutShort(d) : d \in WholeDocuments}}

\* proposals_start, seed_db_start and seed_db_end after the loop at 1668-1675.
Markers(lines) ==
    ScanMarkers(lines, 1,
                [proposals_start |-> 0, seed_db_start |-> 0, seed_db_end |-> 0])

Written(op, file, m, document) ==
    [op |-> op, existing |-> file, seed_map |-> m, written |-> document]

InitFrontend ==
    /\ InitHarness
    /\ \E f \in FrontendFiles, m \in SeedMaps : fin = <<f, m>>
    /\ fout = <<>>

UpdateOnce ==
    /\ Len(fin) = 2
    /\ fout = <<>>
    /\ fout' = <<Written("update", fin[1], fin[2],
                         update_frontend(fin[1], fin[2]))>>
    /\ UNCHANGED <<files, dirs, now, runs, pc, mode, timestamp, locals,
                   raisedAt, fs0, wrote, fin>>

UpdateAgain ==
    /\ Len(fin) = 2
    /\ Len(fout) = 1
    /\ \E m \in SeedMaps :
           fout' = Append(fout,
                      Written("update", File(fout[1].written), m,
                              update_frontend(File(fout[1].written), m)))
    /\ UNCHANGED <<files, dirs, now, runs, pc, mode, timestamp, locals,
                   raisedAt, fs0, wrote, fin>>

RegenerateOver ==
    /\ Len(fin) = 2
    /\ Len(fout) = 1
    /\ \E m \in SeedMaps :
           fout' = Append(fout,
                      Written("regenerate", File(fout[1].written), m,
                              regenerate_frontend(m)))
    /\ UNCHANGED <<files, dirs, now, runs, pc, mode, timestamp, locals,
                   raisedAt, fs0, wrote, fin>>

NextFrontend == UpdateOnce \/ UpdateAgain \/ RegenerateOver

SpecFrontend == InitFrontend /\ [][NextFrontend]_vars

\* The three anchors were found, the terminal marker after the SEED_DB line.
AllLocated(lines) ==
    /\ Markers(lines).proposals_start # 0
    /\ Markers(lines).seed_db_start # 0
    /\ Markers(lines).seed_db_end # 0

ProposalsLiterals(document) ==
    {i \in 1..Len(document) : HasProposalsMark(document[i])}

SeedDbLiterals(document) ==
    {i \in 1..Len(document) : HasSeedDbMark(document[i])}

\* C22: when update_frontend finds a document with the three anchors, it
\* replaces the lines from the PROPOSALS anchor up to, not including, the
\* terminal 'let selectedProposals' line by the catalog literal and the new
\* SEED_DB line: the lines before the PROPOSALS anchor and the lines from
\* the terminal marker on are in the written document as they were, and
\* the written document has one PROPOSALS literal and one SEED_DB literal.
C22_SpliceKeepsSurroundings ==
    \A k \in 1..Len(fout) :
        (/\ fout[k].op = "update"
         /\ fout[k].existing # NoFile
         /\ AllLocated(fout[k].existing[1])) =>
            LET lines == fout[k].existing[1]
                m == Markers(lines)
                new_lines == fout[k].written
                tail == Len(lines) - m.seed_db_end + 1
            IN  /\ Len(new_lines)
                       = (m.proposals_start - 1)
                             + Len(FRONTEND_PROPOSALS_JS) + 1 + tail
                /\ \A i \in 1..(m.proposals_start - 1) :
                       new_lines[i] = lines[i]
                /\ \A j \in 0..(tail - 1) :
                       new_lines[Len(new_lines) - j] = lines[Len(lines) - j]
                /\ Cardinality(ProposalsLiterals(new_lines)) = 1
                /\ Cardinality(SeedDbLiterals(new_lines)) = 1
                /\ \E i \in SeedDbLiterals(new_lines) :
                       new_lines[i] = SeedDbLine(fout[k].seed_map)

\* Reached: a restyled document holding one seed was spliced with a map of
\* two seeds; the markup around the data section is still the restyled one.
C22_Witness ==
    /\ Len(fout) >= 1
    /\ fout[1].existing = File(RestyledDocument(Put(EmptyMap, ABC12, TripleB)))
    /\ Cardinality(DOMAIN fout[1].seed_map) = 2
    /\ fout[1].written # fout[1].existing[1]
    /\ fout[1].written # TemplateDocument(fout[1].seed_map)
    /\ fout[1].written[1] = Line("(restyled head)")
    /\ fout[1].written[Len(fout[1].written)] = Line("(restyled tail)")

\* C23: when update_frontend finds a document in which the PROPOSALS line,
\* the SEED_DB line or the terminal 'let selectedProposals' line after the
\* SEED_DB line is missing, it writes the document of the template.
C23_FallsBackWithoutAnchors ==
    \A k \in 1..Len(fout) :
        (/\ fout[k].op = "update"
         /\ fout[k].existing # NoFile
         /\ ~AllLocated(fout[k].existing[1])) =>
            fout[k].written = TemplateDocument(fout[k].seed_map)

(***************************************************************************)
(* The data literal of the frontend, under Spec.                           *)
(***************************************************************************)
\* The literals on the SEED_DB lines of a document.
Literals(document) ==
    {document[i].data[1] : i \in SeedDbLiterals(document)}

\* C24: the data literal update_frontend and regenerate_frontend write has
\* one {s, p} entry for each seed code of the seed map, with the proposals
\* the map holds for it, in ascending order of seed code, and its count is
\* the number of entries; when a full run has completed, the literal lists
\* the seeds of the database file, in the order of the database file.
C24_LiteralListsSeedMap ==
    /\ pc \in {"published", "regen_done"} =>
           \E literal \in Literals(frontend[1]) :
               /\ literal.count = Cardinality(DOMAIN seed_map)
               /\ Len(literal.seeds) = literal.count
               /\ \A i \in 1..Len(literal.seeds) :
                      /\ literal.seeds[i].s \in DOMAIN seed_map
                      /\ literal.seeds[i].p = seed_map[literal.seeds[i].s]
               /\ \A i \in 1..(Len(literal.seeds) - 1) :
                      StrLess(literal.seeds[i].s, literal.seeds[i + 1].s)
    /\ pc = "complete" =>
           /\ db # NoFile
           /\ db # File(Truncated)
           /\ \E literal \in Literals(frontend[1]) :
                  /\ Len(literal.seeds) = Len(db[1].seeds)
                  /\ \A i \in 1..Len(literal.seeds) :
                         /\ literal.seeds[i].s = db[1].seeds[i].seed
                         /\ literal.seeds[i].p = db[1].seeds[i].proposals

\* Reached: a second full run completed over a frontend the first run wrote;
\* the literal and the database list two seeds.
C24_Witness ==
    /\ pc = "complete"
    /\ fs0.frontend # NoFile
    /\ new_count > 0
    /\ Len(db[1].seeds) = 2
    /\ \E literal \in Literals(frontend[1]) : literal.count = 2
    /\ \E literal \in Literals(fs0.frontend[1]) : literal.count = 1

(***************************************************************************)
(* What the pipeline lets into the database, under Spec.                   *)
(***************************************************************************)
\* C29: starting with no database, every seed of the database file has a
\* seed code of exactly 5 characters, each a letter or a digit, and 3
\* proposals none of which is "UNKNOWN", whatever the harvests held.
C29_DatabaseHoldsValidSeeds ==
    (db # NoFile /\ db # File(Truncated)) =>
        \A i \in 1..Len(db[1].seeds) :
            /\ Len(db[1].seeds[i].seed) = 5
            /\ \A k \in 1..Len(db[1].seeds[i].seed) :
                   db[1].seeds[i].seed[k] \in Letters \cup Digits
            /\ Len(db[1].seeds[i].proposals) = 3
            /\ \A k \in 1..3 : db[1].seeds[i].proposals[k] # UNKNOWN

\* Reached: a second full run completed on a harvest holding a record with
\* "UNKNOWN", a record with a malformed seed code and a seed the database
\* of two seeds already had.
C29_Witness ==
    /\ pc = "complete"
    /\ runs = 2
    /\ fs0.db # NoFile
    /\ removed.unknown > 0
    /\ removed.invalid > 0
    /\ merge_dupes > 0
    /\ db # File(Truncated)
    /\ Len(db[1].seeds) = 2

(***************************************************************************)
(* The removal of the raw CSV, under Spec.                                 *)
(***************************************************************************)
\* The records clean_seeds keeps of the CSV the invocation found.
HarvestedRecords == clean_seeds(read_csv(fs0.csv[1].rows)).clean

\* C30: whenever the seed-log.csv an invocation found is gone, that
\* invocation has written the snapshot, the backup (when there was a
\* database), the database and the frontend, and has copied the CSV to the
\* archive: an archived copy holds the CSV as it was, and the database file
\* holds every seed code the cleaning kept of it.
C30_CsvRemovedOnlyWhenSafe ==
    (fs0.csv # NoFile /\ csv = NoFile) =>
        /\ {"snapshot", "database", "frontend", "archive", "output"}
               \subseteq wrote
        /\ fs0.db # NoFile =>
               /\ "backup" \in wrote
               /\ \E t \in DOMAIN backups : backups[t] = fs0.db[1]
        /\ \E t \in DOMAIN archives : archives[t] = fs0.csv[1]
        /\ \E t \in DOMAIN snapshots :
               snapshots[t] = SnapshotDocument(HarvestedRecords, t)
        /\ db # NoFile
        /\ db # File(Truncated)
        /\ \A i \in 1..Len(HarvestedRecords) :
               HarvestedRecords[i].seed \in DOMAIN SeedMapOf(db)
        /\ frontend # NoFile
        /\ \E i \in SeedDbLiterals(frontend[1]) :
               frontend[1][i] = SeedDbLine(SeedMapOf(db))

\* Reached: the second full run, on a harvest with refused records, has
\* cleared the output directory; the archive holds two harvests.
C30_Witness ==
    /\ pc = "complete"
    /\ runs = 2
    /\ fs0.csv # NoFile
    /\ csv = NoFile
    /\ fs0.db # NoFile
    /\ removed.unknown + removed.invalid > 0
    /\ Cardinality(DOMAIN archives) = 2

====
